---------------------------- MODULE Spec2Model ----------------------------
(***************************************************************************)
(* A model of piet-gpu's mesh and resource core:                           *)
(*   - the path normalizer  (piet-hardware/src/rasterizer.rs,              *)
(*     shape_to_lyon_path / PathConverter),                                *)
(*   - the rasterizer's mesh buffers (piet-hardware/src/rasterizer.rs,     *)
(*     Rasterizer),                                                        *)
(*   - the wgpu texture state machine (piet-wgpu/src/texture.rs),          *)
(*   - the OpenGL context of the example (piet-gpu/examples/gl.rs).        *)
(* Each part has its own specification (SpecPath, SpecRast, SpecTex,       *)
(* SpecGl); a part's actions leave the other parts' variables unchanged.   *)
(*                                                                         *)
(* Coordinates are integers counting units of 1/1024, which both f64 and   *)
(* f32 represent exactly while the count stays below 2^24.                 *)
(***************************************************************************)
EXTENDS Integers, Sequences, FiniteSets, TLC

VARIABLES
    \* ---- path normalizer (PathConverter and the Flatten around it) ----
    consumed,      \* the PathEls the inner iterator has yielded so far
    iterDone,      \* the Fuse around the inner iterator has yielded None
    outerDone,     \* PathConverter::next has returned None (Flatten is fused)
    first,         \* PathConverter.first : Option<Point>
    last,          \* PathConverter.last : Option<Point>
    needs_close,   \* PathConverter.needs_close
    events,        \* the flattened event stream produced so far
    lastCall,      \* the most recent PathConverter::next call: element and output
    polls,         \* polls of the stream after it ended
    pstatus,       \* "running" | "panicked"
    \* ---- rasterizer ----
    vertices,      \* Rasterizer.buffers.vertices
    indices,       \* Rasterizer.buffers.indices
    vcap,          \* capacity of the vertex Vec
    icap,          \* capacity of the index Vec
    vhigh,         \* highest vertex capacity reached so far
    ihigh,         \* highest index capacity reached so far
    rastOp,        \* the most recent Rasterizer call and what it found
    \* ---- wgpu texture ----
    tex,           \* TextureInner
    nextId,        \* the next fresh device object id
    texOp,         \* the most recent texture call, its arguments and effects
    written,       \* format of the most recent completed write_texture, or None
    tstatus,       \* "running" | "panicked"
    handles,       \* how many WgpuTexture handles (clones) share the texture
    borrow,        \* the RefCell's borrow flag: 0 unused, -1 mutably borrowed
    guards,        \* the handles whose BorrowedTextureMut guard is alive
    \* ---- GlContext ----
    has_context,   \* GlContext.has_context
    glState,       \* the driver's binding state
    glOp,          \* the most recent GlContext call and the driver calls it made
    gstatus,       \* "running" | "panicked"
    \* ---- the example's event loop ----
    window,        \* the window built before the loop, if any
    state,         \* Option<(surface, window, gl_context)>
    renderer,      \* Option<Source<GlContext>>
    not_current_gl_context,  \* Option<NotCurrentContext>
    window_size,   \* `size`, the window size last reported
    frames,        \* how many frames were scheduled (next_frame)
    loopOp,        \* the most recent event and how its handler ended
    lstatus        \* "running" | "panicked"

pathVars == <<consumed, iterDone, outerDone, first, last, needs_close, events,
              lastCall, polls, pstatus>>
rastVars == <<vertices, indices, vcap, icap, vhigh, ihigh, rastOp>>
texVars  == <<tex, nextId, texOp, written, tstatus, handles, borrow, guards>>
glVars   == <<has_context, glState, glOp, gstatus>>
loopVars == <<window, state, renderer, not_current_gl_context, window_size,
              frames,
              loopOp, lstatus>>
vars     == <<pathVars, rastVars, texVars, glVars, loopVars>>

\* Option<T>: None is the empty sequence, Some(v) the one-element sequence.
None == <<>>
Some(v) == <<v>>
IsSome(o) == o # None
Unwrap(o) == o[1]

\* What each part's actions leave alone.
PathOnly == UNCHANGED <<rastVars, texVars, glVars, loopVars>>
RastOnly == UNCHANGED <<pathVars, texVars, glVars, loopVars>>
TexOnly  == UNCHANGED <<pathVars, rastVars, glVars, loopVars>>
GlOnly   == UNCHANGED <<pathVars, rastVars, texVars, loopVars>>
LoopOnly == UNCHANGED <<pathVars, rastVars, texVars>>

Abs(n) == IF n < 0 THEN -n ELSE n
Max(a, b) == IF a >= b THEN a ELSE b

-----------------------------------------------------------------------------
(* Numbers *)

\* `x as f32`: round to 24 significant bits, ties to even.
RECURSIVE Quantum(_, _)
Quantum(m, q) == IF m < 16777216 THEN q ELSE Quantum(m \div 2, q * 2)

cast(k) ==
    LET a  == Abs(k)
        q  == Quantum(a, 1)
        lo == (a \div q) * q
        r  == a - lo
        up == IF 2 * r < q THEN lo
              ELSE IF 2 * r > q THEN lo + q
              ELSE IF (lo \div q) % 2 = 0 THEN lo ELSE lo + q
    IN  IF k < 0 THEN -up ELSE up

\* approx_eq(a, b) = (a - b).abs() < 0.01, on counts of 1/1024.
approx_eq(a, b) == Abs(a - b) * 100 < 1024

Pt(x, y) == [x |-> x, y |-> y]

convert_point(pt) == [x |-> cast(pt.x), y |-> cast(pt.y)]

-----------------------------------------------------------------------------
(* Path normalizer *)

\* The longest input path.
MaxLen == 4
\* How often the stream is polled after it has ended.
MaxPolls == 2

\* (0,0); a point within 0.01 of it on both axes; a point within 0.01 on y
\* only; a point within 0.01 on x only.
Points == {Pt(0, 0), Pt(5, 5), Pt(2048, 5), Pt(5, 2048)}
\* Control points of the curves.
Ctrls == {Pt(1024, 1024)}

MoveTo(pt)          == [type |-> "MoveTo",    pts |-> <<pt>>]
LineTo(pt)          == [type |-> "LineTo",    pts |-> <<pt>>]
QuadTo(c, pt)       == [type |-> "QuadTo",    pts |-> <<c, pt>>]
CurveTo(c1, c2, pt) == [type |-> "CurveTo",   pts |-> <<c1, c2, pt>>]
ClosePath           == [type |-> "ClosePath", pts |-> <<>>]
EndOfInput          == [type |-> "None",      pts |-> <<>>]

PathEls ==
    {MoveTo(p) : p \in Points} \cup {LineTo(p) : p \in Points}
    \cup {QuadTo(c, p) : c \in Ctrls, p \in Points}
    \cup {CurveTo(c, c, p) : c \in Ctrls, p \in Points}
    \cup {ClosePath}

Begin(at)     == [type |-> "Begin", at |-> at]
Line(from, to) == [type |-> "Line", from |-> from, to |-> to]
Quadratic(from, ctrl, to) ==
    [type |-> "Quadratic", from |-> from, ctrl |-> ctrl, to |-> to]
Cubic(from, c1, c2, to) ==
    [type |-> "Cubic", from |-> from, ctrl1 |-> c1, ctrl2 |-> c2, to |-> to]
End(l, f, c)  == [type |-> "End", last |-> l, first |-> f, close |-> c]

\* one(p): the ArrayVec holding p alone.
one(p) == <<p>>

\* The End event of the close closure.
\* Variant that also sets close when first and last coincide (it is not what
\* the closure does; C2 tells the two apart).
EndFlagSpec(f, l, c) == End(convert_point(l), convert_point(f),
                            c \/ (approx_eq(f.x, l.x) /\ approx_eq(f.y, l.y)))
EndEvent(f, l, c) == End(convert_point(l), convert_point(f), c)

\* Whether the close closure emits an End for a subpath from f to l.
\* Variant that overlooks the close argument; C13 tells it from EmitsEnd.
EmitsEndUnlessCoincident(f, l, nc, c) ==
    (~approx_eq(f.x, l.x) \/ ~approx_eq(f.y, l.y)) \/ nc
EmitsEnd(f, l, nc, c) ==
    (~approx_eq(f.x, l.x) \/ ~approx_eq(f.y, l.y)) \/ (nc \/ c)

\* The close closure: takes first and last, and returns the optional End
\* together with the new needs_close.
close(f, l, nc, c) ==
    IF IsSome(f) /\ IsSome(l) /\ EmitsEnd(Unwrap(f), Unwrap(l), nc, c)
    THEN [out |-> Some(EndEvent(Unwrap(f), Unwrap(l), c)), needs_close |-> FALSE]
    ELSE [out |-> None, needs_close |-> nc]

\* The record of a call of next: the element the inner iterator yielded,
\* the events returned, whether the call returned, and the converter's
\* fields on entry.
PathRecord(el, out, returned) ==
    [el |-> el, out |-> out, returned |-> returned,
     pre |-> [first |-> first, last |-> last, needs_close |-> needs_close]]

\* The segment event of a LineTo / QuadTo / CurveTo arm drawn from `from`.
\* Variant whose segments start where they end; C37 tells it from Segment.
SegmentFromItsEnd(el, from) ==
    CASE el.type = "LineTo" ->
           Line(convert_point(el.pts[1]), convert_point(el.pts[1]))
      [] el.type = "QuadTo" ->
           Quadratic(convert_point(el.pts[2]), convert_point(el.pts[1]),
                     convert_point(el.pts[2]))
      [] el.type = "CurveTo" ->
           Cubic(convert_point(el.pts[3]), convert_point(el.pts[1]),
                 convert_point(el.pts[2]), convert_point(el.pts[3]))
Segment(el, from) ==
    CASE el.type = "LineTo" ->
           Line(convert_point(from), convert_point(el.pts[1]))
      [] el.type = "QuadTo" ->
           Quadratic(convert_point(from), convert_point(el.pts[1]),
                     convert_point(el.pts[2]))
      [] el.type = "CurveTo" ->
           Cubic(convert_point(from), convert_point(el.pts[1]),
                 convert_point(el.pts[2]), convert_point(el.pts[3]))

\* A segment arm: needs_close is set, then last.replace(pt).expect(..).
\* Variant that starts the segment at the origin where no point is set; C15
\* tells it from SegmentArm.
SegmentArmFromOrigin(el) ==
    LET from == IF IsSome(last) THEN Unwrap(last) ELSE Pt(0, 0)
    IN  /\ needs_close' = TRUE
        /\ UNCHANGED first
        /\ last' = Some(el.pts[Len(el.pts)])
        /\ events' = events \o one(Segment(el, from))
        /\ lastCall' = PathRecord(el, one(Segment(el, from)), TRUE)
        /\ pstatus' = "running"
SegmentArm(el) ==
    /\ needs_close' = TRUE
    /\ UNCHANGED first
    /\ IF IsSome(last)
       THEN /\ last' = Some(el.pts[Len(el.pts)])
            /\ events' = events \o one(Segment(el, Unwrap(last)))
            /\ lastCall' = PathRecord(el, one(Segment(el, Unwrap(last))),
                                        TRUE)
            /\ pstatus' = "running"
       ELSE /\ last' = last
            /\ events' = events
            /\ lastCall' = PathRecord(el, <<>>, FALSE)
            /\ pstatus' = "panicked"

\* PathConverter::next when the inner iterator yields el.
NextEl(el) ==
    /\ pstatus = "running"
    /\ ~iterDone
    /\ Len(consumed) < MaxLen
    /\ consumed' = Append(consumed, el)
    /\ UNCHANGED <<iterDone, outerDone, polls>>
    /\ CASE el.type = "MoveTo" ->
              LET c == close(first, last, needs_close, FALSE)
                  v == c.out \o <<Begin(convert_point(el.pts[1]))>>
              IN  /\ first' = Some(el.pts[1])
                  /\ last' = Some(el.pts[1])
                  /\ needs_close' = c.needs_close
                  /\ events' = events \o v
                  /\ lastCall' = PathRecord(el, v, TRUE)
                  /\ pstatus' = "running"
         [] el.type \in {"LineTo", "QuadTo", "CurveTo"} -> SegmentArm(el)
         [] el.type = "ClosePath" ->
              LET c == close(first, last, needs_close, TRUE)
              IN  /\ first' = None
                  /\ last' = None
                  /\ needs_close' = c.needs_close
                  /\ events' = events \o c.out
                  /\ lastCall' = PathRecord(el, c.out, TRUE)
                  /\ pstatus' = "running"

PathStep == PathOnly /\ \E el \in PathEls : NextEl(el)

\* PathConverter::next when the (fused) inner iterator yields None: the
\* result is close(self, false).map(one); a None result ends the Flatten.
\* Variant whose close leaves first and last in place; C26 tells it from
\* NextNone.
NextNoneKeepsPoints ==
    /\ PathOnly
    /\ pstatus = "running"
    /\ ~outerDone
    /\ Len(events) < 2 * MaxLen + 2
    /\ LET c == close(first, last, needs_close, FALSE)
       IN  /\ UNCHANGED <<first, last>>
           /\ needs_close' = c.needs_close
           /\ events' = events \o c.out
           /\ lastCall' = PathRecord(EndOfInput, c.out, TRUE)
           /\ outerDone' = (c.out = None)
    /\ iterDone' = TRUE
    /\ UNCHANGED <<consumed, polls, pstatus>>
NextNone ==
    /\ PathOnly
    /\ pstatus = "running"
    /\ ~outerDone
    /\ LET c == close(first, last, needs_close, FALSE)
       IN  /\ first' = None
           /\ last' = None
           /\ needs_close' = c.needs_close
           /\ events' = events \o c.out
           /\ lastCall' = PathRecord(EndOfInput, c.out, TRUE)
           /\ outerDone' = (c.out = None)
    /\ iterDone' = TRUE
    /\ UNCHANGED <<consumed, polls, pstatus>>

\* Polling the flattened stream after it ended: Flatten is fused, the
\* converter is not called again and nothing is yielded.
PollEnded ==
    /\ PathOnly
    /\ pstatus = "running"
    /\ outerDone
    /\ polls < MaxPolls
    /\ polls' = polls + 1
    /\ UNCHANGED <<consumed, iterDone, outerDone, first, last, needs_close,
                   events, lastCall, pstatus>>

PathInit ==
    /\ consumed = <<>>
    /\ iterDone = FALSE
    /\ outerDone = FALSE
    /\ first = None
    /\ last = None
    /\ needs_close = FALSE
    /\ events = <<>>
    /\ lastCall = [el |-> EndOfInput, out |-> <<>>, returned |-> FALSE,
                   pre |-> [first |-> None, last |-> None,
                            needs_close |-> FALSE]]
    /\ polls = 0
    /\ pstatus = "running"

PathNext == PathStep \/ NextNone \/ PollEnded

-----------------------------------------------------------------------------
(* Rasterizer *)

\* The most vertices the mesh buffers are let to hold.
MaxVerts == 8
\* The most rectangles of one fill_rects call.
MaxRects == 2

Rect(x0, y0, x1, y1) == [x0 |-> x0, y0 |-> y0, x1 |-> x1, y1 |-> y1]

\* Color::as_rgba8 of a colour held as 0xRRGGBBAA.
as_rgba8(c) ==
    <<(c \div 16777216) % 256, (c \div 65536) % 256, (c \div 256) % 256, c % 256>>

Vertex(pos, uv, color) == [pos |-> pos, uv |-> uv, color |-> color]

\* 0x7F0000FF (a dark red) and 0x00000080 (half-transparent black).
Colors == {2130706687, 128}
\* One rectangle in each colour. Its corners differ on every coordinate, and
\* x1 = 16384 + 1/1024 is not an f32: the cast rounds it to 16384.
TessRects ==
    {[pos |-> Rect(1024, 2048, 16777217, 4096), uv |-> Rect(0, 256, 512, 1024),
      color |-> c] : c \in Colors}

RECURSIVE SeqsUpTo(_, _)
SeqsUpTo(S, n) ==
    IF n = 0 THEN {<<>>}
    ELSE LET shorter == SeqsUpTo(S, n - 1)
         IN  shorter \cup {Append(q, x) : q \in {r \in shorter : Len(r) = n - 1},
                                          x \in S}

\* The `vertices` closure of fill_rects: the four corners of one rectangle.
RectVertices(tess) ==
    LET color == as_rgba8(tess.color)
        p == tess.pos
        u == tess.uv
    IN  << Vertex(<<cast(p.x0), cast(p.y0)>>, <<cast(u.x0), cast(u.y0)>>, color),
           Vertex(<<cast(p.x1), cast(p.y0)>>, <<cast(u.x1), cast(u.y0)>>, color),
           Vertex(<<cast(p.x1), cast(p.y1)>>, <<cast(u.x1), cast(u.y1)>>, color),
           Vertex(<<cast(p.x0), cast(p.y1)>>, <<cast(u.x0), cast(u.y1)>>, color) >>

\* The base index of the i-th rectangle of a fill_rects call. (A u32; it
\* would wrap only from 2^30 rectangles on.)
\* Variant with the base one too high; C4 tells it from RectBase.
RectBaseShifted(i) == i * 4 + 1
RectBase(i) == i * 4

\* The six indices of the i-th rectangle.
RectIndices(i) ==
    LET base == RectBase(i)
    IN  <<base, base + 1, base + 2, base, base + 2, base + 3>>

RECURSIVE Flatten(_, _)
\* The items of a flat_map, from the i-th group on, in order.
Flatten(groups, i) ==
    IF i > Len(groups) THEN <<>> ELSE groups[i] \o Flatten(groups, i + 1)

\* RawVec::grow_amortized: the capacity after a reserve that has to grow.
grow_amortized(cap, required) == Max(Max(cap * 2, required), 4)

RECURSIVE PushCap(_, _, _)
\* The capacity of a Vec of capacity cap and length len after n more pushes.
PushCap(cap, len, n) ==
    IF n = 0 THEN cap
    ELSE PushCap(IF len = cap THEN grow_amortized(cap, len + 1) ELSE cap,
                 len + 1, n - 1)

\* What Vec::clear leaves of the capacity.
\* Variant that frees the allocation; C10 tells it from ClearCap.
ClearFreesCap(cap) == 0
ClearCap(cap) == cap

\* What Rasterizer::clear leaves of the index buffer.
\* Variant that leaves the indices in place; C9 tells it from ClearIndices.
ClearKeepsIndices(idx) == idx
ClearIndices(idx) == <<>>

\* No tessellator run.
NoCall == [tess |-> "none"]

\* The record of a call: its arguments, the tessellator run it made (if
\* any), its result and the buffers it found.
RastRecord(op, args, call, ok, result) ==
    [op |-> op, args |-> args, call |-> call, ok |-> ok, result |-> result,
     attempts |-> IF call.tess = "none" THEN 0 ELSE 1,
     n |-> IF op = "fill_rects" THEN Len(args) ELSE 0, tess |-> call.tess,
     vbase |-> Len(vertices), ibase |-> Len(indices),
     vcap |-> vcap, icap |-> icap,
     cleared |-> (rastOp.cleared \/ rastOp.op = "clear"),
     failed |-> (rastOp.op # "clear" /\ (rastOp.failed \/ ~rastOp.ok))]

Grown(v, i) ==
    /\ vcap' = PushCap(vcap, Len(vertices), v)
    /\ icap' = PushCap(icap, Len(indices), i)
    /\ vhigh' = Max(vhigh, vcap')
    /\ ihigh' = Max(ihigh, icap')

\* Rasterizer::clear
clear ==
    /\ vertices' = <<>>
    /\ indices' = ClearIndices(indices)
    /\ vcap' = ClearCap(vcap)
    /\ icap' = ClearCap(icap)
    /\ vhigh' = Max(vhigh, vcap')
    /\ ihigh' = Max(ihigh, icap')
    /\ rastOp' = RastRecord("clear", <<>>, NoCall, TRUE, "()")

\* Rasterizer::fill_rects
\* Variant that starts the buffers afresh; C38 tells it from fill_rects.
FillRectsReplaces(rects) ==
    LET rect_count == Len(rects)
        verts == [i \in 1 .. rect_count |-> RectVertices(rects[i])]
        idx == [i \in 1 .. rect_count |-> RectIndices(i - 1)]
    IN  /\ Len(vertices) + 4 * rect_count <= MaxVerts
        /\ vertices' = Flatten(verts, 1)
        /\ indices' = Flatten(idx, 1)
        /\ Grown(4 * rect_count, 6 * rect_count)
        /\ rastOp' = RastRecord("fill_rects", rects, NoCall, TRUE, "()")
fill_rects(rects) ==
    LET rect_count == Len(rects)
        verts == [i \in 1 .. rect_count |-> RectVertices(rects[i])]
        idx == [i \in 1 .. rect_count |-> RectIndices(i - 1)]
    IN  /\ Len(vertices) + 4 * rect_count <= MaxVerts
        /\ vertices' = vertices \o Flatten(verts, 1)
        /\ indices' = indices \o Flatten(idx, 1)
        /\ Grown(4 * rect_count, 6 * rect_count)
        /\ rastOp' = RastRecord("fill_rects", rects, NoCall, TRUE, "()")

\* The vertex the caller's cvt_vertex callback builds.
TessVertex == Vertex(<<0, 0>>, <<0, 0>>, <<255, 255, 255, 255>>)

\* What a tessellator may add in one run: nv vertices and triangles over
\* the ids of those vertices (two of the triangles over n vertices).
Triples(n) == {<<0, 1, 2>>, <<n - 1, 0, n - 1>>}
TessOutputs ==
    {[nv |-> 0, tris |-> <<>>]}
    \cup {[nv |-> 3, tris |-> t] : t \in SeqsUpTo(Triples(3), 1)}
    \cup {[nv |-> 4, tris |-> <<<<0, 1, 2>>, <<0, 2, 3>>>>]}

RECURSIVE TriIndices(_, _, _)
\* BuffersBuilder::add_triangle: vertex ids are positions in the buffer.
TriIndices(tris, offset, i) ==
    IF i > Len(tris) THEN <<>>
    ELSE <<offset + tris[i][1], offset + tris[i][2], offset + tris[i][3]>>
         \o TriIndices(tris, offset, i + 1)

Bevel == <<"Bevel">>
Round == <<"Round">>
Miter(limit) == <<"Miter", limit>>

\* piet::StrokeStyle
StrokeStyle(cap, join, offset, pattern) ==
    [line_cap |-> cap, line_join |-> join, dash_offset |-> offset,
     dash_pattern |-> pattern]

\* The arguments of the fill_shape calls made: a shape, a fill rule and a
\* tolerance (in counts of 1/1024).
FillRequests ==
    {[shape |-> "segment", mode |-> "EvenOdd", tolerance |-> 102],
     [shape |-> "square", mode |-> "NonZero", tolerance |-> 1024],
     [shape |-> "square", mode |-> "EvenOdd", tolerance |-> 1024]}

\* The arguments of the stroke_shape calls made: two solid and three dashed
\* strokes; among the dashed ones every argument and every field of the
\* style takes two values or more.
StrokeRequests ==
    {[shape |-> "segment", tolerance |-> 102, width |-> 1024,
      style |-> StrokeStyle("Butt", Bevel, 0, <<>>)],
     [shape |-> "square", tolerance |-> 1024, width |-> 3072,
      style |-> StrokeStyle("Round", Miter(16777217), 512, <<>>)],
     [shape |-> "segment", tolerance |-> 102, width |-> 1024,
      style |-> StrokeStyle("Butt", Bevel, 0, <<2048>>)],
     [shape |-> "square", tolerance |-> 1024, width |-> 3072,
      style |-> StrokeStyle("Square", Round, 512, <<1024, 3072>>)],
     [shape |-> "square", tolerance |-> 102, width |-> 1024,
      style |-> StrokeStyle("Round", Miter(2048), 0, <<2048>>)]}

\* shape_to_lyon_path(&shape, tolerance), as the tessellator is handed it.
LyonPath(shape, tolerance) == [shape |-> shape, tolerance |-> tolerance]

\* A run of the fill tessellator with the options fill_shape builds.
FillCall(shape, mode, tolerance) ==
    [tess |-> "fill", path |-> LyonPath(shape, tolerance),
     options |-> [fill_rule |-> mode, tolerance |-> cast(tolerance)]]

\* cvt_line_cap: the lyon cap of a piet cap.
\* Variant that makes every cap a butt cap; C24 tells it from cvt_line_cap.
CapAlwaysButt(cap) == <<"lyon", "Butt">>
cvt_line_cap(cap) ==
    CASE cap = "Butt" -> <<"lyon", "Butt">>
      [] cap = "Round" -> <<"lyon", "Round">>
      [] cap = "Square" -> <<"lyon", "Square">>

\* The lyon join of a piet join.
LyonJoin(join) ==
    CASE join[1] = "Bevel" -> <<"lyon", "Bevel">>
      [] join[1] = "Round" -> <<"lyon", "Round">>
      [] join[1] = "Miter" -> <<"lyon", "Miter">>

\* The kurbo cap of a piet cap.
KurboCap(cap) ==
    CASE cap = "Butt" -> <<"kurbo", "Butt">>
      [] cap = "Round" -> <<"kurbo", "Round">>
      [] cap = "Square" -> <<"kurbo", "Square">>

\* The kurbo join of a piet join.
KurboJoin(join) ==
    CASE join[1] = "Bevel" -> <<"kurbo", "Bevel">>
      [] join[1] = "Round" -> <<"kurbo", "Round">>
      [] join[1] = "Miter" -> <<"kurbo", "Miter">>

\* A run of the stroke tessellator with the options stroke_shape builds
\* (StrokeOptions::default() has a miter limit of 4).
StrokeCall(shape, tolerance, width, style) ==
    [tess |-> "stroke", path |-> LyonPath(shape, tolerance),
     options |-> [tolerance |-> cast(tolerance), line_width |-> cast(width),
                  start_cap |-> cvt_line_cap(style.line_cap),
                  end_cap |-> cvt_line_cap(style.line_cap),
                  line_join |-> LyonJoin(style.line_join),
                  miter_limit |-> IF style.line_join[1] = "Miter"
                                  THEN cast(style.line_join[2]) ELSE 4096]]

\* The kurbo::Stroke of the dashed branch (Stroke::new has a miter limit
\* of 4).
KurboStroke(width, style) ==
    [width |-> width, start_cap |-> KurboCap(style.line_cap),
     end_cap |-> KurboCap(style.line_cap), join |-> KurboJoin(style.line_join),
     miter_limit |-> IF style.line_join[1] = "Miter" THEN style.line_join[2]
                     ELSE 4096,
     dash_offset |-> style.dash_offset, dash_pattern |-> style.dash_pattern]

\* kurbo::stroke(shape.path_elements(tolerance), &stroke, tolerance): the
\* outline of the dashed stroke, kept as the call that made it.
DashedOutline(shape, stroke, tolerance) ==
    [stroked |-> shape, stroke |-> stroke, tolerance |-> tolerance]

\* Whether stroke_shape takes its dashed branch.
\* Variant that never does; C12 tells it from IsDashed.
NeverDashed(style) == FALSE
IsDashed(style) == style.dash_pattern # <<>>

\* A tessellator run into a BuffersBuilder over the buffers: on success the
\* geometry is appended, on failure abort_geometry truncates both buffers to
\* their lengths at begin_geometry (they keep the capacity they grew to).
Tessellate(op, args, call, out, ok, result) ==
    /\ Len(vertices) + out.nv <= MaxVerts
    /\ IF ok
       THEN /\ vertices' = vertices \o [k \in 1 .. out.nv |-> TessVertex]
            /\ indices' = indices \o TriIndices(out.tris, Len(vertices), 1)
       ELSE UNCHANGED <<vertices, indices>>
    /\ Grown(out.nv, 3 * Len(out.tris))
    /\ rastOp' = RastRecord(op, args, call, ok, result)

\* ResultExt::piet_err of a tessellator's result: Ok(()) stays, an error
\* becomes a piet::Error.
piet_err(ok) == IF ok THEN "Ok" ELSE "Err"

\* What the dashed branch of stroke_shape returns, given what the fill_shape
\* it ends with returned.
\* Variant that drops the result; C21 tells it from DashedResult.
DashedResultDropped(filled) == "Ok"
DashedResult(filled) == filled

\* Rasterizer::fill_shape
fill_shape(shape, mode, tolerance, out, ok) ==
    Tessellate("fill_shape",
               [shape |-> shape, mode |-> mode, tolerance |-> tolerance],
               FillCall(shape, mode, tolerance), out, ok, piet_err(ok))

\* Rasterizer::stroke_shape: a dashed stroke is outlined by kurbo and the
\* outline filled (the body of fill_shape), any other goes to the stroke
\* tessellator.
stroke_shape(shape, tolerance, width, style, out, ok) ==
    LET args == [shape |-> shape, tolerance |-> tolerance, width |-> width,
                 style |-> style]
        filled_path == DashedOutline(shape, KurboStroke(width, style), tolerance)
    IN  IF IsDashed(style)
        THEN Tessellate("stroke_shape", args,
                        FillCall(filled_path, "NonZero", tolerance), out, ok,
                        DashedResult(piet_err(ok)))
        ELSE Tessellate("stroke_shape", args,
                        StrokeCall(shape, tolerance, width, style), out, ok,
                        piet_err(ok))

RastClear == RastOnly /\ clear
RastFillRects ==
    RastOnly /\ \E rects \in SeqsUpTo(TessRects, MaxRects) : fill_rects(rects)
RastFillShape ==
    /\ RastOnly
    /\ \E r \in FillRequests, out \in TessOutputs, ok \in BOOLEAN :
           fill_shape(r.shape, r.mode, r.tolerance, out, ok)
RastStrokeShape ==
    /\ RastOnly
    /\ \E r \in StrokeRequests, out \in TessOutputs, ok \in BOOLEAN :
           stroke_shape(r.shape, r.tolerance, r.width, r.style, out, ok)

\* Rasterizer::new
RastInit ==
    /\ vertices = <<>>
    /\ indices = <<>>
    /\ vcap = 0
    /\ icap = 0
    /\ vhigh = 0
    /\ ihigh = 0
    /\ rastOp = [op |-> "new", args |-> <<>>, call |-> NoCall, ok |-> TRUE,
                 result |-> "()", attempts |-> 0,
                 n |-> 0, tess |-> "none",
                 vbase |-> 0, ibase |-> 0, vcap |-> 0, icap |-> 0,
                 cleared |-> FALSE, failed |-> FALSE]

RastNext == RastClear \/ RastFillRects \/ RastFillShape \/ RastStrokeShape

-----------------------------------------------------------------------------
(* wgpu texture *)

\* Device objects (textures, samplers, bind groups) are numbered as they are
\* created; no call is made once this many exist.
MaxIds == 5

\* Handles of one texture: the one create_texture returns and its clones.
MaxHandles == 2

Formats == {"Grayscale", "Rgb", "RgbaPremul", "RgbaSeparate", "Other"}
Interpolations == {"Bilinear", "NearestNeighbor"}
Repeats == {"Clamp", "Repeat", "Color", "Other"}
Sizes == {<<1, 1>>, <<2, 1>>}
Offsets == {<<0, 0>>, <<1, 0>>}

\* Bytes per pixel of the caller's data in each format.
SourceBytes(format) ==
    CASE format = "Grayscale" -> 1
      [] format = "Rgb" -> 3
      [] OTHER -> 4

\* The caller's pixel data of an image: every byte different.
PixelData(size, format) ==
    [k \in 1 .. size[1] * size[2] * SourceBytes(format) |-> k]

\* bytes_per_pixel; 0 stands for the panic on an unsupported format.
\* Variant that takes every format for a four-byte one; C25 tells it from
\* bytes_per_pixel.
BytesPerPixelAny(format) == 4
bytes_per_pixel(format) ==
    IF format \in {"Grayscale", "Rgb", "RgbaPremul", "RgbaSeparate"} THEN 4 ELSE 0

RECURSIVE ExpandGrayscale(_, _)
\* for &byte in d { push(byte); push(byte); push(byte); push(255) }
ExpandGrayscale(d, i) ==
    IF i > Len(d) THEN <<>>
    ELSE <<d[i], d[i], d[i], 255>> \o ExpandGrayscale(d, i + 1)

RECURSIVE ExpandRgb(_, _)
\* d.chunks(3).flat_map(|chunk| chunk.iter().copied().chain(once(255)))
ExpandRgb(d, i) ==
    IF i > Len(d) THEN <<>>
    ELSE LET j == IF i + 2 <= Len(d) THEN i + 2 ELSE Len(d)
         IN  SubSeq(d, i, j) \o <<255>> \o ExpandRgb(d, j + 1)

\* The data after the format match of the allocating branch of write_texture.
Formatted(format, data) ==
    IF data = None THEN None
    ELSE CASE format = "Grayscale" -> Some(ExpandGrayscale(Unwrap(data), 1))
           [] format = "Rgb" -> Some(ExpandRgb(Unwrap(data), 1))
           [] OTHER -> data

\* Whether write_texture takes its allocating branch.
\* Variant that ignores the format; C6 tells it from NeedsTexture.
NeedsTextureIfUnset(t, format) == t.texture = None
NeedsTexture(t, format) == t.texture = None \/ t.format # format

\* TextureInner::recompute_bind_group, the bind group getting the id `id`.
\* Variant that leaves the bind group as it was; C5 tells the two apart.
StaleBindGroup(t, id) == t
\* Variant that builds a bind group even where no texture is stored; C16 and
\* C32 tell the two apart.
BindsWithoutTexture(t, id) ==
    [t EXCEPT !.bind_group =
         Some([id |-> id,
               texture |-> IF t.texture = None THEN 0 ELSE Unwrap(t.texture).id,
               sampler |-> t.sampler.id])]
\* Variant that keeps a bind group once there is one; C33 tells the two
\* apart.
BindGroupBuiltOnce(t, id) ==
    IF t.texture = None THEN [t EXCEPT !.bind_group = None]
    ELSE IF IsSome(t.bind_group) THEN t
    ELSE [t EXCEPT !.bind_group =
              Some([id |-> id, texture |-> Unwrap(t.texture).id,
                    sampler |-> t.sampler.id])]
recompute_bind_group(t, id) ==
    IF t.texture = None
    THEN [t EXCEPT !.bind_group = None]
    ELSE [t EXCEPT !.bind_group =
              Some([id |-> id, texture |-> Unwrap(t.texture).id,
                    sampler |-> t.sampler.id])]

\* wgpu::FilterMode of an interpolation mode.
FilterMode(interpolation) ==
    IF interpolation = "Bilinear" THEN "Linear" ELSE "Nearest"

\* The sampler descriptor built by create_texture and
\* set_texture_interpolation.
\* Variant that leaves the address mode and the border color at the
\* descriptor's defaults; C36 tells it from Sampler.
SamplerWithDefaults(id, interpolation, address_mode, border_color) ==
    [id |-> id, filter |-> FilterMode(interpolation),
     address_mode |-> "ClampToEdge", border_color |-> None]
Sampler(id, interpolation, address_mode, border_color) ==
    [id |-> id, filter |-> FilterMode(interpolation),
     address_mode |-> address_mode, border_color |-> border_color]

\* The record of a call: its arguments, its result, the bind groups and
\* samplers the device built for it, the upload it queued, and the texture
\* and the last written format it found.
TexRecord(op, format, size, data, offset, interpolation, result, built, upload) ==
    [op |-> op, format |-> format, size |-> size, data |-> data,
     offset |-> offset, interpolation |-> interpolation, result |-> result,
     rebuilds |-> built[1], samplers |-> built[2], upload |-> upload,
     pre |-> tex, prevWritten |-> written, guards |-> guards,
     prev |-> [op |-> texOp.op, format |-> texOp.format,
               rebuilds |-> texOp.rebuilds]]

\* How many bind groups with an id from `id` on the texture t holds.
Built(t, id) ==
    IF IsSome(t.bind_group) /\ Unwrap(t.bind_group).id >= id THEN 1 ELSE 0

\* WgpuTexture::create_texture
create_texture(interpolation, repeat) ==
    /\ tstatus = "none"
    /\ LET address_mode ==
               CASE repeat = "Clamp" -> "ClampToEdge"
                 [] repeat = "Repeat" -> "Repeat"
                 [] repeat = "Color" -> "ClampToBorder"
                 [] OTHER -> "panic"
           border_color ==
               IF repeat = "Color" THEN Some("OpaqueWhite") ELSE None
       IN  IF address_mode = "panic"
           THEN /\ tstatus' = "panicked"
                /\ texOp' = TexRecord("create_texture", "Grayscale", <<0, 0>>,
                                      None, <<0, 0>>, interpolation, "panic",
                                      <<0, 0>>, None) @@ [repeat |-> repeat]
                /\ UNCHANGED <<tex, nextId, written>>
           ELSE /\ tex' = Some([texture |-> None,
                                format |-> "Grayscale",
                                sampler |-> Sampler(nextId, interpolation,
                                                    address_mode, border_color),
                                interpolation |-> interpolation,
                                border_color |-> border_color,
                                address_mode |-> address_mode,
                                bind_group |-> None])
                /\ nextId' = nextId + 1
                /\ tstatus' = "running"
                /\ texOp' = TexRecord("create_texture", "Grayscale", <<0, 0>>,
                                      None, <<0, 0>>, interpolation, "ok",
                                      <<0, 1>>, None) @@ [repeat |-> repeat]
                /\ UNCHANGED written

\* The data queue.write_texture is handed by write_texture: the caller's
\* data, expanded only where a texture was allocated, or zeroes.
UploadData(alloc, size, format, data) ==
    LET d == IF alloc THEN Formatted(format, data) ELSE data
    IN  IF IsSome(d) THEN Unwrap(d)
        ELSE [k \in 1 .. size[1] * size[2] * bytes_per_pixel(format) |-> 0]

\* BorrowedTextureMut::write_texture
write_texture(size, format, data) ==
    /\ tstatus = "running"
    /\ nextId <= MaxIds
    /\ IF bytes_per_pixel(format) = 0
       THEN /\ tstatus' = "panicked"
            /\ texOp' = TexRecord("write_texture", format, size, data, <<0, 0>>,
                                  "", "panic", <<0, 0>>, None)
            /\ UNCHANGED <<tex, nextId, written>>
       ELSE LET t0 == Unwrap(tex)
                alloc == NeedsTexture(t0, format)
                t1 == IF alloc
                      THEN recompute_bind_group(
                               [t0 EXCEPT !.format = format,
                                          !.texture = Some([id |-> nextId,
                                                            width |-> size[1],
                                                            height |-> size[2]])],
                               nextId + 1)
                      ELSE t0
                upload == [texture |-> Unwrap(t1.texture).id,
                           origin |-> <<0, 0>>,
                           data |-> UploadData(alloc, size, format, data),
                           bytes_per_row |-> size[1] * bytes_per_pixel(format),
                           rows_per_image |-> size[2],
                           width |-> size[1], height |-> size[2]]
            IN  /\ tex' = Some(t1)
                /\ nextId' = IF alloc THEN nextId + 2 ELSE nextId
                /\ written' = Some(format)
                /\ texOp' = TexRecord("write_texture", format, size, data,
                                      <<0, 0>>, "", "ok",
                                      <<Built(t1, nextId), 0>>, Some(upload))
                /\ UNCHANGED tstatus

\* The format check write_subtexture begins with.
\* Variant that lets every format pass; C17 tells it from FormatMismatch.
NoFormatMismatch(t, format) == FALSE
FormatMismatch(t, format) == t.format # format

\* BorrowedTextureMut::write_subtexture
\* Variant that drops the bind group as it uploads; C31 tells it from
\* write_subtexture.
WriteSubtextureDropsBindGroup(offset, size, format) ==
    /\ tstatus = "running"
    /\ LET t0 == Unwrap(tex)
           data == PixelData(size, format)
       IN  IF FormatMismatch(t0, format) \/ bytes_per_pixel(format) = 0
              \/ t0.texture = None
           THEN /\ tstatus' = "panicked"
                /\ tex' = tex
                /\ texOp' = TexRecord("write_subtexture", format, size,
                                      Some(data), offset, "", "panic",
                                      <<0, 0>>, None)
           ELSE /\ tstatus' = "running"
                /\ tex' = Some([t0 EXCEPT !.bind_group = None])
                /\ texOp' = TexRecord("write_subtexture", format, size,
                                      Some(data), offset, "", "ok", <<0, 0>>,
                                      Some([texture |-> Unwrap(t0.texture).id,
                                            origin |-> offset,
                                            data |-> data,
                                            bytes_per_row |->
                                                size[1] * bytes_per_pixel(format),
                                            rows_per_image |-> size[2],
                                            width |-> size[1],
                                            height |-> size[2]]))
    /\ UNCHANGED <<nextId, written>>
write_subtexture(offset, size, format) ==
    /\ tstatus = "running"
    /\ LET t0 == Unwrap(tex)
           data == PixelData(size, format)
       IN  IF FormatMismatch(t0, format) \/ bytes_per_pixel(format) = 0
              \/ t0.texture = None
           THEN /\ tstatus' = "panicked"
                /\ texOp' = TexRecord("write_subtexture", format, size,
                                      Some(data), offset, "", "panic",
                                      <<0, 0>>, None)
           ELSE /\ tstatus' = "running"
                /\ texOp' = TexRecord("write_subtexture", format, size,
                                      Some(data), offset, "", "ok", <<0, 0>>,
                                      Some([texture |-> Unwrap(t0.texture).id,
                                            origin |-> offset,
                                            data |-> data,
                                            bytes_per_row |->
                                                size[1] * bytes_per_pixel(format),
                                            rows_per_image |-> size[2],
                                            width |-> size[1],
                                            height |-> size[2]]))
    /\ UNCHANGED <<tex, nextId, written>>

\* BorrowedTextureMut::set_texture_interpolation
\* Variant that rebuilds the sampler whatever the mode; C35 tells it from
\* set_texture_interpolation.
SetInterpolationAlways(interpolation) ==
    /\ tstatus = "running"
    /\ nextId <= MaxIds
    /\ LET t0 == Unwrap(tex)
           t1 == recompute_bind_group(
                     [t0 EXCEPT !.interpolation = interpolation,
                                !.sampler = Sampler(nextId, interpolation,
                                                    t0.address_mode,
                                                    t0.border_color)],
                     nextId + 1)
       IN  /\ tex' = Some(t1)
           /\ nextId' = nextId + 1 + Built(t1, nextId)
           /\ texOp' = TexRecord("set_texture_interpolation", "", <<0, 0>>,
                                 None, <<0, 0>>, interpolation, "ok",
                                 <<Built(t1, nextId), 1>>, None)
    /\ UNCHANGED <<written, tstatus>>
set_texture_interpolation(interpolation) ==
    /\ tstatus = "running"
    /\ nextId <= MaxIds
    /\ LET t0 == Unwrap(tex)
           t1 == recompute_bind_group(
                     [t0 EXCEPT !.interpolation = interpolation,
                                !.sampler = Sampler(nextId, interpolation,
                                                    t0.address_mode,
                                                    t0.border_color)],
                     nextId + 1)
       IN  IF t0.interpolation # interpolation
           THEN /\ tex' = Some(t1)
                /\ nextId' = nextId + 1 + Built(t1, nextId)
                /\ texOp' = TexRecord("set_texture_interpolation", "", <<0, 0>>,
                                      None, <<0, 0>>, interpolation, "ok",
                                      <<Built(t1, nextId), 1>>, None)
           ELSE /\ UNCHANGED <<tex, nextId>>
                /\ texOp' = TexRecord("set_texture_interpolation", "", <<0, 0>>,
                                      None, <<0, 0>>, interpolation, "ok",
                                      <<0, 0>>, None)
    /\ UNCHANGED <<written, tstatus>>

\* Whether the unwrap of bind_group() finds a bind group.
\* Variant that never fails; C18 tells it from HasBindGroup.
AnyBindGroup(t) == TRUE
HasBindGroup(t) == IsSome(t.bind_group)

\* RefCell::borrow_mut fails when the cell is borrowed in any way.
\* Variant that grants every borrow; C23 tells it from AlreadyBorrowed.
BorrowUnchecked(flag) == FALSE
AlreadyBorrowed(flag) == flag # 0

\* RefCell::borrow fails when the cell is mutably borrowed.
MutablyBorrowed(flag) == flag < 0

\* WgpuTexture::borrow_mut on the handle h: the guard lives until dropped.
borrow_mut(h) ==
    /\ tstatus = "running"
    /\ IF AlreadyBorrowed(borrow)
       THEN /\ tstatus' = "panicked"
            /\ texOp' = TexRecord("borrow_mut", "", <<0, 0>>, None, <<0, 0>>,
                                  "", "panic", <<0, 0>>, None)
            /\ UNCHANGED <<borrow, guards>>
       ELSE /\ tstatus' = "running"
            /\ borrow' = -1
            /\ guards' = guards \cup {h}
            /\ texOp' = TexRecord("borrow_mut", "", <<0, 0>>, None, <<0, 0>>,
                                  "", "ok", <<0, 0>>, None)
    /\ UNCHANGED <<tex, nextId, written, handles>>

\* Drop of the BorrowedTextureMut guard of h: RefMut releases the borrow.
drop_guard(h) ==
    /\ tstatus = "running"
    /\ h \in guards
    /\ guards' = guards \ {h}
    /\ borrow' = 0
    /\ texOp' = TexRecord("drop", "", <<0, 0>>, None, <<0, 0>>, "", "ok",
                          <<0, 0>>, None)
    /\ UNCHANGED <<tex, nextId, written, tstatus, handles>>

\* WgpuTexture::clone: one more handle of the same Rc<RefCell<..>>.
clone ==
    /\ tstatus = "running"
    /\ handles < MaxHandles
    /\ handles' = handles + 1
    /\ texOp' = TexRecord("clone", "", <<0, 0>>, None, <<0, 0>>, "", "ok",
                          <<0, 0>>, None)
    /\ UNCHANGED <<tex, nextId, written, tstatus, borrow, guards>>

\* WgpuTexture::bind_group
bind_group ==
    /\ tstatus = "running"
    /\ IF ~MutablyBorrowed(borrow) /\ HasBindGroup(Unwrap(tex))
       THEN /\ tstatus' = "running"
            /\ texOp' = TexRecord("bind_group", "", <<0, 0>>, None, <<0, 0>>,
                                  "", "ok", <<0, 0>>, None)
       ELSE /\ tstatus' = "panicked"
            /\ texOp' = TexRecord("bind_group", "", <<0, 0>>, None, <<0, 0>>,
                                  "", "panic", <<0, 0>>, None)
    /\ UNCHANGED <<tex, nextId, written>>

\* The methods of BorrowedTextureMut are called on a live guard.
OnGuard == guards # {} /\ UNCHANGED <<handles, borrow, guards>>

TexCreate ==
    /\ TexOnly
    /\ \E interpolation \in Interpolations, repeat \in Repeats :
          create_texture(interpolation, repeat)
    /\ handles' = IF tstatus' = "running" THEN 1 ELSE 0
    /\ UNCHANGED <<borrow, guards>>
TexWrite ==
    TexOnly /\ OnGuard /\ \E size \in Sizes, format \in Formats :
        \E data \in {None, Some(PixelData(size, format))} :
            write_texture(size, format, data)
TexWriteSub ==
    TexOnly /\ OnGuard /\ \E offset \in Offsets, size \in Sizes, format \in Formats :
        write_subtexture(offset, size, format)
TexSetInterpolation ==
    TexOnly /\ OnGuard /\ \E interpolation \in Interpolations :
        set_texture_interpolation(interpolation)
TexBindGroup ==
    TexOnly /\ bind_group /\ UNCHANGED <<handles, borrow, guards>>
TexBorrowMut == TexOnly /\ \E h \in 1 .. handles : borrow_mut(h)
TexDropGuard == TexOnly /\ \E h \in guards : drop_guard(h)
TexClone == TexOnly /\ clone

TexInit ==
    /\ tex = None
    /\ nextId = 1
    /\ texOp = [op |-> "none", format |-> "", size |-> <<0, 0>>, data |-> None,
                offset |-> <<0, 0>>, interpolation |-> "", result |-> "ok",
                rebuilds |-> 0, samplers |-> 0, upload |-> None,
                pre |-> None, prevWritten |-> None, guards |-> {},
                prev |-> [op |-> "none", format |-> "", rebuilds |-> 0]]
    /\ written = None
    /\ tstatus = "none"
    /\ handles = 0
    /\ borrow = 0
    /\ guards = {}

TexNext ==
    \/ TexCreate \/ TexWrite \/ TexWriteSub \/ TexSetInterpolation
    \/ TexBindGroup \/ TexBorrowMut \/ TexDropGuard \/ TexClone

-----------------------------------------------------------------------------
(* GlContext *)

\* Names the driver hands out for textures, buffers and vertex arrays.
GlNames == {1, 2}
GlImageFormats == {"Rgba", "Other"}
GlRepeats == {"Color", "Repeat", "Clamp"}
BufferTypes == {"Vertex", "Index"}
VertexFormats == {<<"Position", "Texture", "Color">>, <<"Position", "Other">>}

\* GlContext.render_program, the name of the linked program.
RenderProgram == 1

\* One driver call: the function, its target (or "") and the name it is given.
Call(fn, target, arg) == [fn |-> fn, target |-> target, arg |-> arg]

\* The driver's bindings after one call.
Apply(g, c) ==
    CASE c.fn = "UseProgram" -> [g EXCEPT !.program = c.arg]
      [] c.fn = "ActiveTexture" -> [g EXCEPT !.active_texture = c.arg]
      [] c.fn = "BindTexture" ->
             [g EXCEPT !.texture_2d[g.active_texture + 1] = c.arg]
      [] c.fn = "BindVertexArray" -> [g EXCEPT !.vertex_array = c.arg]
      [] c.fn = "BindBuffer" /\ c.target = "ARRAY_BUFFER" ->
             [g EXCEPT !.array_buffer = c.arg]
      [] c.fn = "BindBuffer" /\ c.target = "ELEMENT_ARRAY_BUFFER" ->
             [g EXCEPT !.element_array_buffer = c.arg]
      [] c.fn = "DeleteTextures" ->
             [g EXCEPT !.texture_2d =
                  [u \in 1 .. 2 |-> IF g.texture_2d[u] = c.arg THEN 0
                                    ELSE g.texture_2d[u]]]
      [] c.fn = "DeleteBuffers" ->
             [g EXCEPT !.array_buffer = IF @ = c.arg THEN 0 ELSE @,
                       !.element_array_buffer = IF @ = c.arg THEN 0 ELSE @]
      [] c.fn = "DeleteVertexArrays" ->
             [g EXCEPT !.vertex_array = IF @ = c.arg THEN 0 ELSE @]
      [] OTHER -> g

RECURSIVE RunCalls(_, _, _)
RunCalls(g, calls, i) ==
    IF i > Len(calls) THEN g ELSE RunCalls(Apply(g, calls[i]), calls, i + 1)

\* GlContext::assert_context: whether it returns (it panics otherwise).
\* Variant that always returns; C19 tells it from assert_context.
AssertsNothing(flag) == TRUE
assert_context(flag) == flag

\* The operations that begin with self.assert_context().
AssertingOps ==
    {"clear", "flush", "delete_texture", "write_texture", "write_subtexture",
     "set_texture_interpolation", "max_texture_size", "create_buffer",
     "write_buffer", "delete_buffer", "delete_vertex_array"}

\* One attribute of create_vertex_array's loop.
AttribCalls(data_type) ==
    <<Call("VertexAttribPointer", data_type, 0),
      Call("EnableVertexAttribArray", data_type, 0)>>

RECURSIVE FormatCalls(_, _)
\* The loop over the vertex formats, up to an unsupported data type.
FormatCalls(formats, i) ==
    IF i > Len(formats) \/ formats[i] = "Other" THEN <<>>
    ELSE AttribCalls(formats[i]) \o FormatCalls(formats, i + 1)

\* The driver calls of push_buffers.
\* Variant that draws before the vertex array and the buffers are bound;
\* C20 tells it from PushBuffersCalls.
PushBuffersDrawsEarly(a) ==
    <<Call("UseProgram", "", RenderProgram),
      Call("Viewport", "", 0),
      Call("Uniform2f", "viewport_size", 0),
      Call("UniformMatrix3fv", "u_transform", 0),
      Call("ActiveTexture", "", 0),
      Call("BindTexture", "TEXTURE_2D", a.mask),
      Call("Uniform1i", "mask", 0),
      Call("ActiveTexture", "", 1),
      Call("BindTexture", "TEXTURE_2D", a.name),
      Call("Uniform1i", "tex", 1),
      Call("DrawElements", "TRIANGLES", 0),
      Call("BindVertexArray", "", a.vertex_array),
      Call("BindBuffer", "ARRAY_BUFFER", a.buffer),
      Call("BindBuffer", "ELEMENT_ARRAY_BUFFER", a.index_buffer),
      Call("BindVertexArray", "", 0),
      Call("BindBuffer", "ELEMENT_ARRAY_BUFFER", 0),
      Call("BindTexture", "TEXTURE_2D", 0),
      Call("UseProgram", "", 0)>>
PushBuffersCalls(a) ==
    <<Call("UseProgram", "", RenderProgram),
      Call("Viewport", "", 0),
      Call("Uniform2f", "viewport_size", 0),
      Call("UniformMatrix3fv", "u_transform", 0),
      Call("ActiveTexture", "", 0),
      Call("BindTexture", "TEXTURE_2D", a.mask),
      Call("Uniform1i", "mask", 0),
      Call("ActiveTexture", "", 1),
      Call("BindTexture", "TEXTURE_2D", a.name),
      Call("Uniform1i", "tex", 1),
      Call("BindVertexArray", "", a.vertex_array),
      Call("BindBuffer", "ARRAY_BUFFER", a.buffer),
      Call("BindBuffer", "ELEMENT_ARRAY_BUFFER", a.index_buffer),
      Call("DrawElements", "TRIANGLES", 0),
      Call("BindVertexArray", "", 0),
      Call("BindBuffer", "ELEMENT_ARRAY_BUFFER", 0),
      Call("BindTexture", "TEXTURE_2D", 0),
      Call("UseProgram", "", 0)>>

\* The driver calls of an operation's body after its assertion, and how it
\* ends. a.name is the texture, buffer or vertex array it is given or creates.
GlBody(op, a) ==
    CASE op = "clear" ->
           [calls |-> <<Call("ClearColor", "", 0),
                        Call("Clear", "COLOR_BUFFER_BIT", 0)>>,
            result |-> "ok"]
      [] op = "flush" -> [calls |-> <<Call("Flush", "", 0)>>, result |-> "Ok"]
      [] op = "create_texture" ->
           LET head == <<Call("GenTextures", "", a.name),
                         Call("BindTexture", "TEXTURE_2D", a.name),
                         Call("TexParameteri", "TEXTURE_MIN_FILTER", 0),
                         Call("TexParameteri", "TEXTURE_MAG_FILTER", 0)>>
               wrap == <<Call("TexParameteri", "TEXTURE_WRAP_S", 0),
                         Call("TexParameteri", "TEXTURE_WRAP_T", 0)>>
           IN  CASE a.repeat = "Color" ->
                      [calls |-> head \o
                           <<Call("TexParameterfv", "TEXTURE_BORDER_COLOR", 0)>>
                           \o wrap,
                       result |-> "Ok"]
                 [] a.repeat = "Repeat" ->
                      [calls |-> head \o wrap, result |-> "Ok"]
                 [] OTHER -> [calls |-> head, result |-> "panic"]
      [] op = "delete_texture" ->
           [calls |-> <<Call("DeleteTextures", "", a.name)>>, result |-> "ok"]
      [] op = "write_texture" ->
           IF a.format = "Rgba"
           THEN [calls |-> <<Call("BindTexture", "TEXTURE_2D", a.name),
                             Call("TexImage2D", "TEXTURE_2D", 0)>>,
                 result |-> "ok"]
           ELSE [calls |-> <<Call("BindTexture", "TEXTURE_2D", a.name)>>,
                 result |-> "panic"]
      [] op = "write_subtexture" ->
           IF a.format = "Rgba"
           THEN [calls |-> <<Call("BindTexture", "TEXTURE_2D", a.name),
                             Call("TexSubImage2D", "TEXTURE_2D", 0)>>,
                 result |-> "ok"]
           ELSE [calls |-> <<Call("BindTexture", "TEXTURE_2D", a.name)>>,
                 result |-> "panic"]
      [] op = "set_texture_interpolation" ->
           [calls |-> <<Call("BindTexture", "TEXTURE_2D", a.name),
                        Call("TexParameteri", "TEXTURE_MAG_FILTER", 0),
                        Call("TexParameteri", "TEXTURE_MIN_FILTER", 0),
                        Call("BindTexture", "TEXTURE_2D", 0)>>,
            result |-> "ok"]
      [] op = "max_texture_size" ->
           [calls |-> <<Call("GetIntegerv", "MAX_TEXTURE_SIZE", 0)>>,
            result |-> "ok"]
      [] op = "create_buffer" ->
           [calls |-> <<Call("GenBuffers", "", a.name)>>, result |-> "Ok"]
      [] op = "write_buffer" ->
           LET bind_location == IF a.ty = "Vertex" THEN "ARRAY_BUFFER"
                                ELSE "ELEMENT_ARRAY_BUFFER"
           IN  [calls |-> <<Call("BindBuffer", bind_location, a.name),
                            Call("BufferData", bind_location, 0)>>,
                result |-> "Ok"]
      [] op = "delete_buffer" ->
           [calls |-> <<Call("DeleteBuffers", "", a.name)>>, result |-> "ok"]
      [] op = "create_vertex_array" ->
           LET head == <<Call("GenVertexArrays", "", a.name),
                         Call("BindBuffer", "ARRAY_BUFFER", a.buffer),
                         Call("BindVertexArray", "", a.name),
                         Call("GetAttribLocation", "aPos", 0),
                         Call("GetAttribLocation", "aTexCoord", 0),
                         Call("GetAttribLocation", "color", 0)>>
               body == FormatCalls(a.formats, 1)
           IN  IF \E k \in 1 .. Len(a.formats) : a.formats[k] = "Other"
               THEN [calls |-> head \o body, result |-> "panic"]
               ELSE [calls |-> head \o body \o <<Call("BindVertexArray", "", 0)>>,
                     result |-> "Ok"]
      [] op = "delete_vertex_array" ->
           [calls |-> <<Call("DeleteVertexArrays", "", a.name)>>, result |-> "ok"]
      [] op = "push_buffers" -> [calls |-> PushBuffersCalls(a), result |-> "Ok"]

\* An operation of impl GpuContext for GlContext, called with arguments a.
GlCall(op, a) ==
    /\ gstatus = "running"
    /\ UNCHANGED has_context
    /\ IF op \in AssertingOps /\ ~assert_context(has_context)
       THEN /\ glOp' = [op |-> op, args |-> a, ctx |-> has_context,
                        calls |-> <<>>, result |-> "panic",
                        toggle |-> glOp.toggle]
            /\ gstatus' = "panicked"
            /\ UNCHANGED glState
       ELSE LET r == GlBody(op, a)
            IN  /\ glOp' = [op |-> op, args |-> a, ctx |-> has_context,
                            calls |-> r.calls, result |-> r.result,
                            toggle |-> glOp.toggle]
                /\ glState' = RunCalls(glState, r.calls, 1)
                /\ gstatus' = IF r.result = "panic" THEN "panicked"
                              ELSE "running"

NameArg(n) == [name |-> n]

\* GlContext::unset_context
\* Variant that leaves the flag as it is; C22 tells it from unset_context.
UnsetKeepsFlag ==
    /\ gstatus = "running"
    /\ has_context' = has_context
    /\ glOp' = [op |-> "unset_context", args |-> NameArg(0), ctx |-> has_context,
                calls |-> <<>>,
                result |-> "ok", toggle |-> "unset_context"]
    /\ UNCHANGED <<glState, gstatus>>
unset_context ==
    /\ gstatus = "running"
    /\ has_context' = FALSE
    /\ glOp' = [op |-> "unset_context", args |-> NameArg(0), ctx |-> has_context,
                calls |-> <<>>,
                result |-> "ok", toggle |-> "unset_context"]
    /\ UNCHANGED <<glState, gstatus>>

\* GlContext::set_context
\* Variant that leaves the flag as it is; C39 tells it from set_context.
SetKeepsFlag ==
    /\ gstatus = "running"
    /\ has_context' = has_context
    /\ glOp' = [op |-> "set_context", args |-> NameArg(0), ctx |-> has_context,
                calls |-> <<>>, result |-> "ok", toggle |-> "set_context"]
    /\ UNCHANGED <<glState, gstatus>>
set_context ==
    /\ gstatus = "running"
    /\ has_context' = TRUE
    /\ glOp' = [op |-> "set_context", args |-> NameArg(0), ctx |-> has_context,
                calls |-> <<>>,
                result |-> "ok", toggle |-> "set_context"]
    /\ UNCHANGED <<glState, gstatus>>

GlClear == GlOnly /\ GlCall("clear", NameArg(0))
GlFlush == GlOnly /\ GlCall("flush", NameArg(0))
GlCreateTexture ==
    GlOnly /\ \E n \in GlNames, r \in GlRepeats :
        GlCall("create_texture", [name |-> n, repeat |-> r])
GlDeleteTexture ==
    GlOnly /\ \E n \in GlNames : GlCall("delete_texture", NameArg(n))
GlWriteTexture ==
    GlOnly /\ \E n \in GlNames, f \in GlImageFormats :
        GlCall("write_texture", [name |-> n, format |-> f])
GlWriteSubtexture ==
    GlOnly /\ \E n \in GlNames, f \in GlImageFormats :
        GlCall("write_subtexture", [name |-> n, format |-> f])
GlSetTextureInterpolation ==
    GlOnly /\ \E n \in GlNames :
        GlCall("set_texture_interpolation", NameArg(n))
GlMaxTextureSize == GlOnly /\ GlCall("max_texture_size", NameArg(0))
GlCreateBuffer ==
    GlOnly /\ \E n \in GlNames : GlCall("create_buffer", NameArg(n))
GlWriteBuffer ==
    GlOnly /\ \E n \in GlNames, ty \in BufferTypes :
        GlCall("write_buffer", [name |-> n, ty |-> ty])
GlDeleteBuffer ==
    GlOnly /\ \E n \in GlNames : GlCall("delete_buffer", NameArg(n))
GlCreateVertexArray ==
    GlOnly /\ \E n \in GlNames, b \in GlNames, fs \in VertexFormats :
        GlCall("create_vertex_array",
               [name |-> n, buffer |-> b, formats |-> fs])
GlDeleteVertexArray ==
    GlOnly /\ \E n \in GlNames : GlCall("delete_vertex_array", NameArg(n))
GlPushBuffers ==
    GlOnly /\ \E t \in GlNames, m \in GlNames, v \in GlNames, b \in GlNames :
        GlCall("push_buffers",
               [name |-> t, mask |-> m, vertex_array |-> v, buffer |-> b,
                index_buffer |-> b])
GlUnsetContext == GlOnly /\ unset_context
GlSetContext == GlOnly /\ set_context

\* GlContext::new
GlInit ==
    /\ has_context = TRUE
    /\ glState = [program |-> 0, vertex_array |-> 0, array_buffer |-> 0,
                  element_array_buffer |-> 0, active_texture |-> 0,
                  texture_2d |-> <<0, 0>>]
    /\ glOp = [op |-> "new", args |-> [name |-> 0], ctx |-> TRUE,
               calls |-> <<>>, result |-> "ok",
               toggle |-> "new"]
    /\ gstatus = "running"

GlNext ==
    \/ GlClear \/ GlFlush \/ GlCreateTexture \/ GlDeleteTexture
    \/ GlWriteTexture \/ GlWriteSubtexture \/ GlSetTextureInterpolation
    \/ GlMaxTextureSize \/ GlCreateBuffer \/ GlWriteBuffer \/ GlDeleteBuffer
    \/ GlCreateVertexArray \/ GlDeleteVertexArray \/ GlPushBuffers
    \/ GlUnsetContext \/ GlSetContext

-----------------------------------------------------------------------------
(* The example's event loop *)

\* Frames scheduled before the loop is left alone.
MaxFrames == 2

\* Sizes a Resized event reports; a zero width fails NonZeroU32::new.
WindowSizes == {<<0, 1>>, <<1, 1>>, <<2, 1>>}

\* The GL context in its two type states.
NotCurrent(id) == [kind |-> "NotCurrentContext", id |-> id]
PossiblyCurrent(id) == [kind |-> "PossiblyCurrentContext", id |-> id]
make_current(ctx) == PossiblyCurrent(ctx.id)
make_not_current(ctx) == NotCurrent(ctx.id)

LoopRecord(event, result) ==
    [event |-> event, result |-> result,
     pre |-> [state |-> state, not_current |-> not_current_gl_context]]

\* Event::Resumed. surface_ok and current_ok are the driver's answers to
\* create_window_surface and make_current.
Resumed(surface_ok, current_ok) ==
    /\ lstatus = "running"
    /\ window' = None
    /\ UNCHANGED <<window_size, frames>>
    /\ IF ~surface_ok
       THEN /\ lstatus' = "panicked"
            /\ loopOp' = LoopRecord("Resumed", "panic")
            /\ UNCHANGED <<state, renderer, not_current_gl_context, glVars>>
       ELSE /\ not_current_gl_context' = None
            /\ IF not_current_gl_context = None \/ ~current_ok
               THEN /\ lstatus' = "panicked"
                    /\ loopOp' = LoopRecord("Resumed", "panic")
                    /\ UNCHANGED <<state, renderer, glVars>>
               ELSE /\ renderer' = Some("Source")
                    /\ set_context
                    /\ state' =
                         Some([surface |-> "surface", window |-> "window",
                               context |->
                                 make_current(Unwrap(not_current_gl_context))])
                    /\ lstatus' = "running"
                    /\ loopOp' = LoopRecord("Resumed", "ok")

\* Event::Suspended.
\* Variant that reads the state without taking it; C30 tells it from
\* Suspended.
SuspendedKeepsState ==
    /\ lstatus = "running"
    /\ IF IsSome(state)
       THEN not_current_gl_context' =
                Some(make_not_current(Unwrap(state).context))
       ELSE UNCHANGED not_current_gl_context
    /\ UNCHANGED state
    /\ IF IsSome(renderer) THEN unset_context ELSE UNCHANGED glVars
    /\ loopOp' = LoopRecord("Suspended", "ok")
    /\ UNCHANGED <<window, renderer, window_size, frames, lstatus>>
Suspended ==
    /\ lstatus = "running"
    /\ IF IsSome(state)
       THEN not_current_gl_context' =
                Some(make_not_current(Unwrap(state).context))
       ELSE UNCHANGED not_current_gl_context
    /\ state' = None
    /\ IF IsSome(renderer) THEN unset_context ELSE UNCHANGED glVars
    /\ loopOp' = LoopRecord("Suspended", "ok")
    /\ UNCHANGED <<window, renderer, window_size, frames, lstatus>>

\* WindowEvent::Resized(new_size).
Resized(new_size) ==
    /\ lstatus = "running"
    /\ window_size' = new_size
    /\ IF IsSome(state) /\ (new_size[1] = 0 \/ new_size[2] = 0)
       THEN lstatus' = "panicked" /\ loopOp' = LoopRecord("Resized", "panic")
       ELSE lstatus' = "running" /\ loopOp' = LoopRecord("Resized", "ok")
    /\ UNCHANGED <<window, state, renderer, not_current_gl_context, frames,
                   glVars>>

\* Event::RedrawEventsCleared. drawn is whether draw and swap_buffers, whose
\* driver calls are those of GlContext's operations, returned Ok.
RedrawEventsCleared(drawn) ==
    /\ lstatus = "running"
    /\ frames < MaxFrames
    /\ IF IsSome(state) /\ IsSome(renderer) /\ ~drawn
       THEN /\ lstatus' = "panicked"
            /\ loopOp' = LoopRecord("RedrawEventsCleared", "panic")
            /\ UNCHANGED frames
       ELSE /\ lstatus' = "running"
            /\ loopOp' = LoopRecord("RedrawEventsCleared", "ok")
            /\ frames' = frames + 1
    /\ UNCHANGED <<window, state, renderer, not_current_gl_context, window_size,
                   glVars>>

LoopResumed ==
    LoopOnly /\ \E surface_ok \in BOOLEAN, current_ok \in BOOLEAN :
        Resumed(surface_ok, current_ok)
LoopSuspended == LoopOnly /\ Suspended
LoopResized == LoopOnly /\ \E new_size \in WindowSizes : Resized(new_size)
LoopRedraw == LoopOnly /\ \E drawn \in BOOLEAN : RedrawEventsCleared(drawn)

\* main, up to event_loop.run, in a build for Windows, where the window is
\* made before the loop (elsewhere window starts as None).
LoopInit ==
    /\ window = Some("window")
    /\ state = None
    /\ renderer = None
    /\ not_current_gl_context = Some(NotCurrent(1))
    /\ window_size = <<2, 1>>
    /\ frames = 0
    /\ loopOp = [event |-> "none", result |-> "ok",
                 pre |-> [state |-> None, not_current |-> None]]
    /\ lstatus = "running"

LoopNext == LoopResumed \/ LoopSuspended \/ LoopResized \/ LoopRedraw

-----------------------------------------------------------------------------
(* Specifications: one part runs, the others rest in their initial state. *)

Init == PathInit /\ RastInit /\ TexInit /\ GlInit /\ LoopInit

SpecPath == Init /\ [][PathNext]_vars
SpecRast == Init /\ [][RastNext]_vars
SpecTex  == Init /\ [][TexNext]_vars
SpecGl   == Init /\ [][GlNext]_vars
SpecLoop == Init /\ [][LoopNext]_vars

\* The calls that take an enum value a backend may not support: creating and
\* writing a wgpu texture, creating a GL texture.
EnumNext == TexCreate \/ TexBorrowMut \/ TexWrite \/ GlCreateTexture
SpecEnum == Init /\ [][EnumNext]_vars

-----------------------------------------------------------------------------
(* Properties of the path normalizer (SpecPath) *)

RECURSIVE WellFormedFrom(_, _, _)
\* Every LineTo / QuadTo / CurveTo of path[i..] lies in a subpath a MoveTo
\* opened; `open` tells whether one is open before path[i].
WellFormedFrom(path, i, open) ==
    IF i > Len(path) THEN TRUE
    ELSE CASE path[i].type = "MoveTo" -> WellFormedFrom(path, i + 1, TRUE)
           [] path[i].type = "ClosePath" -> WellFormedFrom(path, i + 1, FALSE)
           [] OTHER -> open /\ WellFormedFrom(path, i + 1, open)

WellFormed(path) == WellFormedFrom(path, 1, FALSE)

RECURSIVE Unended(_, _, _)
\* The number of Begins of evs[i..] left without their End, given `open`
\* open ones before; -1 when a Begin comes while another is open, or an End
\* while none is.
Unended(evs, i, open) ==
    IF i > Len(evs) THEN open
    ELSE CASE evs[i].type = "Begin" ->
                IF open = 0 THEN Unended(evs, i + 1, 1) ELSE -1
           [] evs[i].type = "End" ->
                IF open = 1 THEN Unended(evs, i + 1, 0) ELSE -1
           [] OTHER -> Unended(evs, i + 1, open)

CountType(q, type) == Cardinality({i \in 1 .. Len(q) : q[i].type = type})

\* C1: for a well-formed path every subpath a MoveTo opens yields exactly one
\* Begin and exactly one End, the End coming before the next Begin or at the
\* end of the input: no Begin is left without its End.
C1_BeginEndPaired ==
    (pstatus = "running" /\ WellFormed(consumed)) =>
        /\ Unended(events, 1, 0) >= 0
        /\ CountType(events, "Begin") = CountType(consumed, "MoveTo")
        /\ outerDone =>
               /\ Unended(events, 1, 0) = 0
               /\ CountType(events, "End") = CountType(consumed, "MoveTo")

\* Whether an End event joins points within 0.01 of each other.
Coincide(e) == approx_eq(e.first.x, e.last.x) /\ approx_eq(e.first.y, e.last.y)

EndsOf(call) == {i \in 1 .. Len(call.out) : call.out[i].type = "End"}

C13_ClosePathAlwaysEnds ==
    lastCall.el.type = "ClosePath" =>
        /\ Len(lastCall.out) = 1
        /\ lastCall.out[1].type = "End"
        /\ lastCall.out[1].close

\* C13 as amended: a ClosePath that finds a subpath open (first and last set
\* by a MoveTo not yet ended) emits the End of that subpath with close =
\* true, whether or not its ends coincide and whether or not it has a
\* segment; a ClosePath that finds none open emits nothing.
C13_ClosePathEndsOpenSubpath ==
    lastCall.el.type = "ClosePath" =>
        IF IsSome(lastCall.pre.first) /\ IsSome(lastCall.pre.last)
        THEN lastCall.out =
                 <<End(convert_point(Unwrap(lastCall.pre.last)),
                       convert_point(Unwrap(lastCall.pre.first)), TRUE)>>
        ELSE lastCall.out = <<>>

\* A ClosePath right after a MoveTo: no segment, the ends coincide, and the
\* End is emitted with close = true.
C13_Witness ==
    /\ lastCall.el.type = "ClosePath"
    /\ IsSome(lastCall.pre.first)
    /\ lastCall.pre.first = lastCall.pre.last
    /\ ~lastCall.pre.needs_close
    /\ Len(lastCall.out) = 1
    /\ lastCall.out[1].close

\* C14: a MoveTo that finds a subpath open yields the End of that subpath,
\* with close = false and with its start and its most recent point, and then
\* the Begin of the new subpath.
C14_MoveToEndsThenBegins ==
    (lastCall.el.type = "MoveTo" /\ IsSome(lastCall.pre.first)) =>
        lastCall.out =
            <<End(convert_point(Unwrap(lastCall.pre.last)),
                  convert_point(Unwrap(lastCall.pre.first)), FALSE),
              Begin(convert_point(lastCall.el.pts[1]))>>

IsSegment(x) == x.type \in {"LineTo", "QuadTo", "CurveTo", "Line", "Quadratic", "Cubic"}

CountSegments(q) == Cardinality({i \in 1 .. Len(q) : IsSegment(q[i])})

BoundedCall ==
    /\ Len(lastCall.out) <= 2
    /\ lastCall.el = EndOfInput =>
          /\ Len(lastCall.out) <= 1
          /\ \A i \in 1..Len(lastCall.out) : lastCall.out[i].type = "End"

\* C26: the stream is finite and single-pass: every instruction yields at
\* most two events, the end of the input yields at most one event, an End, and
\* once the end of the input has been answered no poll yields anything more.
C26_FiniteSinglePass == [](BoundedCall) /\ [][iterDone => events' = events]_vars

\* An open subpath was ended by the end of the input, and the ended stream
\* was polled again.
C26_Witness ==
    /\ outerDone
    /\ polls >= 1
    /\ consumed # <<>>
    /\ consumed[Len(consumed)].type = "LineTo"
    /\ events[Len(events)].type = "End"
    /\ lastCall.el = EndOfInput
    /\ lastCall.out = <<>>

\* The event type a segment instruction is turned into.
EventType(el) ==
    CASE el.type = "LineTo" -> "Line"
      [] el.type = "QuadTo" -> "Quadratic"
      [] el.type = "CurveTo" -> "Cubic"

\* The Begin of the subpath the event at i belongs to, 0 if there is none.
BeginOf(evs, i) ==
    LET bs == {b \in 1 .. i - 1 : evs[b].type = "Begin"}
    IN  IF bs = {} THEN 0 ELSE CHOOSE b \in bs : \A c \in bs : c <= b

\* The segment events stand for the segment instructions, one each and in
\* the order of the input.
SegmentsInOrder ==
    LET se == SelectSeq(events, IsSegment)
        si == SelectSeq(consumed, IsSegment)
    IN  /\ Len(se) = Len(si)
        /\ \A k \in 1 .. Len(se) :
              /\ se[k].type = EventType(si[k])
              /\ se[k].to = convert_point(si[k].pts[Len(si[k].pts)])

\* Every segment starts where the segment before it ended, or at the Begin.
SegmentsChained ==
    \A i \in 1 .. Len(events) : IsSegment(events[i]) =>
        /\ i > 1
        /\ \/ events[i - 1].type = "Begin" /\ events[i].from = events[i - 1].at
           \/ IsSegment(events[i - 1]) /\ events[i].from = events[i - 1].to

\* Every End names the Begin point of its subpath as first and the end of
\* the subpath's last segment (the Begin point if it has none) as last.
EndsNameTheirSubpath ==
    \A i \in 1 .. Len(events) : events[i].type = "End" =>
        LET b == BeginOf(events, i)
        IN  /\ b > 0
            /\ \A j \in b + 1 .. i - 1 : IsSegment(events[j])
            /\ events[i].first = events[b].at
            /\ events[i].last = IF b = i - 1 THEN events[b].at
                                ELSE events[i - 1].to

\* C37: for a well-formed path each LineTo, QuadTo and CurveTo yields one
\* Line, Quadratic or Cubic, in the order of the input; each segment starts
\* at the end of the segment before it in its subpath, or at the Begin point;
\* each End has the Begin point of its subpath as first and the end of the
\* last segment as last.
C37_SegmentsChainedEndsMatch ==
    WellFormed(consumed) =>
        /\ pstatus = "running"
        /\ SegmentsInOrder
        /\ SegmentsChained
        /\ EndsNameTheirSubpath

\* A subpath of two segments, not closed, was ended by the end of the input.
C37_Witness ==
    /\ WellFormed(consumed)
    /\ outerDone
    /\ Len(events) = 4
    /\ IsSegment(events[2])
    /\ IsSegment(events[3])
    /\ events[2].type # events[3].type
    /\ events[4].type = "End"
    /\ events[4].first # events[4].last

-----------------------------------------------------------------------------
(* Properties of the rasterizer (SpecRast) *)

\* The offsets of a rectangle's six indices from its first vertex.
QuadOffsets == <<0, 1, 2, 0, 2, 3>>

\* C3: whatever the buffers already hold, each rectangle of a fill_rects
\* call adds 4 vertices and 6 indices, the indices being base+{0,1,2,0,2,3}
\* with base the position of the rectangle's own first vertex.
C3_RectIndicesOwnVertices ==
    rastOp.op = "fill_rects" =>
        /\ Len(vertices) = rastOp.vbase + 4 * rastOp.n
        /\ Len(indices) = rastOp.ibase + 6 * rastOp.n
        /\ \A j \in 0 .. rastOp.n - 1 : \A k \in 1 .. 6 :
               indices[rastOp.ibase + 6 * j + k]
                   = rastOp.vbase + 4 * j + QuadOffsets[k]

\* C4: after any sequence of clear, fill_rects, fill_shape and stroke_shape
\* every index is strictly less than the number of vertices.
C4_IndicesInRange ==
    \A i \in 1 .. Len(indices) : indices[i] < Len(vertices)

\* Rectangles and tessellated triangles share the buffers.
C4_Witness ==
    /\ rastOp.op \in {"fill_shape", "stroke_shape"}
    /\ rastOp.ok
    /\ rastOp.ibase > 0
    /\ Len(indices) > rastOp.ibase
    /\ \E i \in 1 .. Len(indices) : indices[i] = Len(vertices) - 1

\* C9: clear, any calls, clear again: both buffers are empty.
C9_ClearEmpties ==
    rastOp.op = "clear" => vertices = <<>> /\ indices = <<>>

\* A second clear, of buffers that held a mesh, after a failed tessellation.
C9_Witness ==
    /\ rastOp.op = "clear"
    /\ rastOp.cleared
    /\ rastOp.failed
    /\ rastOp.vbase > 0
    /\ rastOp.ibase > 0

\* C10: clear leaves the capacities as they were, so no capacity is ever
\* below the highest it has reached.
C10_CapacityKept ==
    /\ vcap >= vhigh
    /\ icap >= ihigh
    /\ vcap >= Len(vertices)
    /\ icap >= Len(indices)
    /\ rastOp.op = "clear" => vcap = rastOp.vcap /\ icap = rastOp.icap

\* A clear of buffers that had grown, after an earlier clear.
C10_Witness ==
    /\ rastOp.op = "clear"
    /\ rastOp.cleared
    /\ Len(vertices) = 0
    /\ vcap >= 8
    /\ icap >= 12

\* C11: fill_rects on a single rectangle R with UV rectangle U and colour C
\* appends the vertices (x0,y0), (x1,y0), (x1,y1), (x0,y1) of R (as f32),
\* each with the matching corner of U and the RGBA8 value of C, and six
\* indices naming the triangles (v0,v1,v2) and (v0,v2,v3) of those vertices.
C11_SingleRectMesh ==
    (rastOp.op = "fill_rects" /\ rastOp.n = 1) =>
        LET R == rastOp.args[1].pos
            U == rastOp.args[1].uv
            C == as_rgba8(rastOp.args[1].color)
            vb == rastOp.vbase
            ib == rastOp.ibase
        IN  /\ Len(vertices) = vb + 4
            /\ vertices[vb + 1].pos = <<cast(R.x0), cast(R.y0)>>
            /\ vertices[vb + 2].pos = <<cast(R.x1), cast(R.y0)>>
            /\ vertices[vb + 3].pos = <<cast(R.x1), cast(R.y1)>>
            /\ vertices[vb + 4].pos = <<cast(R.x0), cast(R.y1)>>
            /\ vertices[vb + 1].uv = <<cast(U.x0), cast(U.y0)>>
            /\ vertices[vb + 2].uv = <<cast(U.x1), cast(U.y0)>>
            /\ vertices[vb + 3].uv = <<cast(U.x1), cast(U.y1)>>
            /\ vertices[vb + 4].uv = <<cast(U.x0), cast(U.y1)>>
            /\ \A k \in 1 .. 4 : vertices[vb + k].color = C
            /\ Len(indices) = ib + 6
            /\ SubSeq(indices, ib + 1, ib + 6)
                   = <<vb, vb + 1, vb + 2, vb, vb + 2, vb + 3>>

\* C12: a stroke_shape with a non-empty dash pattern runs the fill
\* tessellator only, with fill rule NonZero and the call's tolerance, on the
\* outline kurbo makes of the shape with the call's width, cap, join, dash
\* offset and dash pattern; with an empty dash pattern it runs the stroke
\* tessellator only.
C12_DashedStrokeIsFilled ==
    rastOp.op = "stroke_shape" =>
        LET a == rastOp.args
            st == rastOp.args.style
            c == rastOp.call
        IN  IF st.dash_pattern # <<>>
            THEN /\ c.tess = "fill"
                 /\ c.options.fill_rule = "NonZero"
                 /\ c.options.tolerance = cast(a.tolerance)
                 /\ c.path.tolerance = a.tolerance
                 /\ c.path.shape.stroked = a.shape
                 /\ c.path.shape.tolerance = a.tolerance
                 /\ c.path.shape.stroke.width = a.width
                 /\ c.path.shape.stroke.start_cap = <<"kurbo", st.line_cap>>
                 /\ c.path.shape.stroke.end_cap = <<"kurbo", st.line_cap>>
                 /\ c.path.shape.stroke.join = <<"kurbo", st.line_join[1]>>
                 /\ st.line_join[1] = "Miter" =>
                        c.path.shape.stroke.miter_limit = st.line_join[2]
                 /\ c.path.shape.stroke.dash_offset = st.dash_offset
                 /\ c.path.shape.stroke.dash_pattern = st.dash_pattern
            ELSE /\ c.tess = "stroke"
                 /\ c.path.shape = a.shape

\* A dashed stroke with a two-entry pattern and a dash offset that added
\* triangles to the buffers.
C12_Witness ==
    /\ rastOp.op = "stroke_shape"
    /\ rastOp.args.style.dash_pattern = <<1024, 3072>>
    /\ rastOp.args.style.dash_offset = 512
    /\ rastOp.ok
    /\ Len(indices) > rastOp.ibase

\* C21: a failure of the fill or stroke tessellator is returned by
\* fill_shape and stroke_shape as an error after the one tessellator run of
\* the call; a dashed stroke returns the error of the fill it ends with.
C21_TessellationErrorReturned ==
    rastOp.op \in {"fill_shape", "stroke_shape"} =>
        /\ rastOp.attempts = 1
        /\ rastOp.result = "Err" <=> ~rastOp.ok
        /\ rastOp.result = "Ok" <=> rastOp.ok

\* A dashed stroke whose fill failed, on buffers that held a mesh.
C21_Witness ==
    /\ rastOp.op = "stroke_shape"
    /\ rastOp.call.tess = "fill"
    /\ ~rastOp.ok
    /\ rastOp.result = "Err"
    /\ rastOp.vbase > 0

\* C24: the style's cap and join reach the tessellation under the same
\* names (Butt, Round, Square; Bevel, Round, Miter with the style's limit, as
\* f32 in the stroke tessellator's options), in the direct stroke as in the
\* dashed one, and the start cap and the end cap are both the style's cap.
C24_CapJoinOneToOne ==
    rastOp.op = "stroke_shape" =>
        LET st == rastOp.args.style
            c == rastOp.call
        IN  /\ st.line_cap \in {"Butt", "Round", "Square"}
            /\ st.line_join[1] \in {"Bevel", "Round", "Miter"}
            /\ IF c.tess = "stroke"
               THEN /\ c.options.start_cap = <<"lyon", st.line_cap>>
                    /\ c.options.end_cap = <<"lyon", st.line_cap>>
                    /\ c.options.line_join = <<"lyon", st.line_join[1]>>
                    /\ st.line_join[1] = "Miter" =>
                           c.options.miter_limit = cast(st.line_join[2])
               ELSE /\ c.path.shape.stroke.start_cap = <<"kurbo", st.line_cap>>
                    /\ c.path.shape.stroke.end_cap = <<"kurbo", st.line_cap>>
                    /\ c.path.shape.stroke.join = <<"kurbo", st.line_join[1]>>
                    /\ st.line_join[1] = "Miter" =>
                           c.path.shape.stroke.miter_limit = st.line_join[2]

\* A solid stroke with round caps and a miter join.
C24_Witness ==
    /\ rastOp.op = "stroke_shape"
    /\ rastOp.call.tess = "stroke"
    /\ rastOp.args.style.line_cap = "Round"
    /\ rastOp.args.style.line_join[1] = "Miter"
    /\ rastOp.call.options.miter_limit = 16777216
    /\ rastOp.ok

\* Whether the sequence b starts with the sequence a.
StartsWith(b, a) == Len(a) <= Len(b) /\ SubSeq(b, 1, Len(a)) = a

\* A step of fill_rects, fill_shape or stroke_shape keeps what the buffers
\* held, at the same positions, and a fill_rects of no rectangle keeps the
\* buffers as they are.
OnlyAppends ==
    rastOp'.op \in {"fill_rects", "fill_shape", "stroke_shape"} =>
        /\ StartsWith(vertices', vertices)
        /\ StartsWith(indices', indices)
        /\ rastOp'.vbase = Len(vertices)
        /\ rastOp'.ibase = Len(indices)
        /\ (rastOp'.op = "fill_rects" /\ rastOp'.args = <<>>) =>
              /\ vertices' = vertices
              /\ indices' = indices
              /\ vcap' = vcap
              /\ icap' = icap

\* C38: fill_rects, fill_shape and stroke_shape only append to the buffers:
\* the vertices and the indices they found are still there, unchanged and at
\* the same positions, and fill_rects of an empty iterable changes nothing.
C38_OnlyAppends == [][OnlyAppends]_vars

\* A fill_shape added a triangle to buffers that held a rectangle.
C38_Witness ==
    /\ rastOp.op = "fill_shape"
    /\ rastOp.ok
    /\ rastOp.vbase = 4
    /\ Len(vertices) > 4
    /\ Len(indices) > rastOp.ibase
    /\ rastOp.ibase = 6

-----------------------------------------------------------------------------
(* Properties of the wgpu texture (SpecTex) *)

\* The call just made was a write_texture that returned.
Wrote == texOp.op = "write_texture" /\ texOp.result = "ok"

\* C5: a write_texture on a texture with no backing store, or whose stored
\* format differs from the written one, allocates storage of the written
\* size, stores the written format and rebuilds the bind group.
C5_WriteAllocates ==
    (Wrote /\ (Unwrap(texOp.pre).texture = None
               \/ Unwrap(texOp.pre).format # texOp.format)) =>
        LET t == Unwrap(tex)
            pre == Unwrap(texOp.pre)
        IN  /\ IsSome(t.texture)
            /\ Unwrap(t.texture).width = texOp.size[1]
            /\ Unwrap(t.texture).height = texOp.size[2]
            /\ IsSome(pre.texture) =>
                   Unwrap(t.texture).id > Unwrap(pre.texture).id
            /\ t.format = texOp.format
            /\ texOp.rebuilds = 1
            /\ IsSome(t.bind_group)
            /\ t.bind_group # pre.bind_group
            /\ Unwrap(t.bind_group).texture = Unwrap(t.texture).id
            /\ Unwrap(t.bind_group).sampler = t.sampler.id

\* A write in another format than the stored one, onto existing storage of
\* another size.
C5_Witness ==
    /\ Wrote
    /\ IsSome(Unwrap(texOp.pre).texture)
    /\ Unwrap(texOp.pre).format # texOp.format
    /\ Unwrap(Unwrap(texOp.pre).texture).width # texOp.size[1]

\* C6: a write_texture rebuilds the bind group exactly when it is the first
\* write or its format differs from the previous write's format.
C6_RebuildIffFormatChange ==
    Wrote =>
        /\ texOp.rebuilds \in {0, 1}
        /\ texOp.rebuilds = 1 <=>
               (texOp.prevWritten = None
                \/ Unwrap(texOp.prevWritten) # texOp.format)

\* F1, F1 again, then F2: the write of F2 rebuilds once, right after a write
\* that rebuilt nothing.
C6_Witness ==
    /\ Wrote
    /\ texOp.rebuilds = 1
    /\ texOp.prev.op = "write_texture"
    /\ texOp.prev.rebuilds = 0
    /\ texOp.prev.format # texOp.format

\* C7: the bytes a write_texture uploads for Grayscale or Rgb data are
\* expanded to 4 bytes per pixel, whether the storage is new or reused.
C7_UploadExpanded ==
    (Wrote /\ IsSome(texOp.data) /\ texOp.format \in {"Grayscale", "Rgb"}) =>
        LET u == Unwrap(texOp.upload)
        IN  /\ u.bytes_per_row = texOp.size[1] * 4
            /\ Len(u.data) = texOp.size[1] * texOp.size[2] * 4
            /\ Len(u.data) = u.bytes_per_row * u.rows_per_image

\* C16: set_texture_interpolation with another mode than the stored one
\* stores the mode and builds a new sampler; it builds a new bind group if
\* and only if the texture has backing storage, and without storage the
\* bind group stays absent.
C16_InterpolationRebuilds ==
    (texOp.op = "set_texture_interpolation"
     /\ Unwrap(texOp.pre).interpolation # texOp.interpolation) =>
        LET t == Unwrap(tex)
            pre == Unwrap(texOp.pre)
        IN  /\ t.interpolation = texOp.interpolation
            /\ texOp.samplers = 1
            /\ t.sampler.id > pre.sampler.id
            /\ t.sampler.filter = IF texOp.interpolation = "Bilinear"
                                  THEN "Linear" ELSE "Nearest"
            /\ t.sampler.address_mode = pre.sampler.address_mode
            /\ t.sampler.border_color = pre.sampler.border_color
            /\ t.texture = pre.texture
            /\ t.format = pre.format
            /\ IF IsSome(pre.texture)
               THEN /\ texOp.rebuilds = 1
                    /\ IsSome(t.bind_group)
                    /\ t.bind_group # pre.bind_group
                    /\ Unwrap(t.bind_group).sampler = t.sampler.id
                    /\ Unwrap(t.bind_group).texture = Unwrap(t.texture).id
               ELSE /\ texOp.rebuilds = 0
                    /\ pre.bind_group = None
                    /\ t.bind_group = None

\* A change of mode on a texture with storage, right after a change of mode
\* on the same texture.
C16_Witness ==
    /\ texOp.op = "set_texture_interpolation"
    /\ Unwrap(texOp.pre).interpolation # texOp.interpolation
    /\ IsSome(Unwrap(texOp.pre).texture)
    /\ texOp.rebuilds = 1
    /\ texOp.prev.op = "set_texture_interpolation"

\* C17: a write_subtexture in another format than the stored one fails
\* fatally; it queues no upload and leaves the texture's storage, format,
\* sampler and bind group as they were.
C17_SubtextureFormatMismatch ==
    (texOp.op = "write_subtexture"
     /\ Unwrap(texOp.pre).format # texOp.format) =>
        /\ texOp.result = "panic"
        /\ tstatus = "panicked"
        /\ texOp.upload = None
        /\ tex = texOp.pre

\* A write_subtexture of Grayscale data into a texture that stores Rgb.
C17_Witness ==
    /\ texOp.op = "write_subtexture"
    /\ IsSome(Unwrap(texOp.pre).texture)
    /\ Unwrap(texOp.pre).format = "Rgb"
    /\ texOp.format = "Grayscale"
    /\ texOp.result = "panic"

\* C18: bind_group() and write_subtexture (in any format, Grayscale too) on
\* a texture that has no backing store fail fatally: no bind group is
\* returned and no upload queued.
C18_NoStorageIsFatal ==
    (texOp.op \in {"bind_group", "write_subtexture"}
     /\ Unwrap(texOp.pre).texture = None) =>
        /\ texOp.result = "panic"
        /\ tstatus = "panicked"
        /\ texOp.upload = None
        /\ tex = texOp.pre

\* A write_subtexture in the stored format, Grayscale, before any
\* write_texture.
C18_Witness ==
    /\ texOp.op = "write_subtexture"
    /\ Unwrap(texOp.pre).texture = None
    /\ texOp.prevWritten = None
    /\ texOp.format = "Grayscale"
    /\ Unwrap(texOp.pre).format = "Grayscale"
    /\ texOp.result = "panic"

\* C31: a write_subtexture that succeeded only uploaded pixels: the storage,
\* the stored format, the sampler, the interpolation mode and the bind group
\* are as they were, whatever the offset, the size and the data.
C31_SubtextureOnlyUploads ==
    (texOp.op = "write_subtexture" /\ texOp.result = "ok") =>
        LET t == Unwrap(tex)
            t0 == Unwrap(texOp.pre)
        IN  /\ t.texture = t0.texture
            /\ t.format = t0.format
            /\ t.sampler = t0.sampler
            /\ t.interpolation = t0.interpolation
            /\ t.bind_group = t0.bind_group
            /\ tex = texOp.pre
            /\ IsSome(texOp.upload)
            /\ Unwrap(texOp.upload).texture = Unwrap(t.texture).id
            /\ Unwrap(texOp.upload).origin = texOp.offset
            /\ Unwrap(texOp.upload).data = Unwrap(texOp.data)

\* A sub-region was written at an offset into a texture that has a bind
\* group.
C31_Witness ==
    /\ texOp.op = "write_subtexture"
    /\ texOp.result = "ok"
    /\ texOp.offset = <<1, 0>>
    /\ IsSome(Unwrap(tex).bind_group)

\* C32: a texture has a bind group exactly when it has storage, and a texture
\* just created has neither.
C32_BindGroupIffStorage ==
    /\ IsSome(tex) =>
          (IsSome(Unwrap(tex).bind_group) <=> IsSome(Unwrap(tex).texture))
    /\ (texOp.op = "create_texture" /\ texOp.result = "ok") =>
          /\ IsSome(tex)
          /\ Unwrap(tex).texture = None
          /\ Unwrap(tex).bind_group = None

\* The interpolation of a texture without storage was changed: a sampler was
\* made and no bind group.
C32_Witness ==
    /\ texOp.op = "set_texture_interpolation"
    /\ texOp.samplers = 1
    /\ Unwrap(tex).texture = None
    /\ Unwrap(tex).bind_group = None

\* C33: a bind group that exists was built from the texture's current storage
\* and its current sampler.
C33_BindGroupCurrent ==
    (IsSome(tex) /\ IsSome(Unwrap(tex).bind_group)) =>
        LET t == Unwrap(tex)
        IN  /\ IsSome(t.texture)
            /\ Unwrap(t.bind_group).texture = Unwrap(t.texture).id
            /\ Unwrap(t.bind_group).sampler = t.sampler.id

\* A write replaced the storage of a texture whose sampler had been replaced
\* before.
C33_Witness ==
    /\ texOp.op = "write_texture"
    /\ texOp.result = "ok"
    /\ IsSome(Unwrap(texOp.pre).texture)
    /\ Unwrap(texOp.pre).texture # Unwrap(tex).texture
    /\ Unwrap(tex).sampler.id > 1
    /\ IsSome(Unwrap(tex).bind_group)

\* C34: after a write_texture in a supported format the stored format is that
\* format, and stays so until the next write_texture, so that a
\* write_subtexture in the format of the latest write_texture does not fail.
C34_StoredFormatIsWritten ==
    /\ (texOp.op = "write_texture" /\ texOp.result = "ok") =>
          Unwrap(tex).format = texOp.format
    /\ IsSome(written) => Unwrap(tex).format = Unwrap(written)
    /\ (texOp.op = "write_subtexture"
           /\ texOp.prevWritten = Some(texOp.format)) =>
          /\ texOp.result = "ok"
          /\ tstatus = "running"

\* A sub-region was written in the format of an earlier write_texture that
\* had changed the stored format.
C34_Witness ==
    /\ texOp.op = "write_subtexture"
    /\ texOp.result = "ok"
    /\ texOp.format = "Rgb"
    /\ texOp.prevWritten = Some("Rgb")

\* C35: set_texture_interpolation with the mode the texture has makes no
\* sampler, rebuilds no bind group and changes no field; as every call leaves
\* the texture in the mode it was given, a second call with the same mode
\* changes nothing.
C35_SameModeIsNoOp ==
    texOp.op = "set_texture_interpolation" =>
        /\ Unwrap(tex).interpolation = texOp.interpolation
        /\ texOp.result = "ok"
        /\ Unwrap(texOp.pre).interpolation = texOp.interpolation =>
              /\ tex = texOp.pre
              /\ texOp.samplers = 0
              /\ texOp.rebuilds = 0

\* The mode was set a second time on a texture that has a bind group.
C35_Witness ==
    /\ texOp.op = "set_texture_interpolation"
    /\ texOp.prev.op = "set_texture_interpolation"
    /\ Unwrap(texOp.pre).interpolation = texOp.interpolation
    /\ Unwrap(tex).sampler.id > 1
    /\ IsSome(Unwrap(tex).bind_group)

\* C36: set_texture_interpolation leaves the address mode, the border color,
\* the storage and the stored format as they were, and the sampler it builds
\* has the address mode and the border color the texture was created with.
C36_InterpolationKeepsAddressing ==
    /\ IsSome(tex) =>
          /\ Unwrap(tex).sampler.address_mode = Unwrap(tex).address_mode
          /\ Unwrap(tex).sampler.border_color = Unwrap(tex).border_color
    /\ texOp.op = "set_texture_interpolation" =>
          LET t == Unwrap(tex)
              t0 == Unwrap(texOp.pre)
          IN  /\ t.address_mode = t0.address_mode
              /\ t.border_color = t0.border_color
              /\ t.texture = t0.texture
              /\ t.format = t0.format
              /\ t.sampler.address_mode = t0.sampler.address_mode
              /\ t.sampler.border_color = t0.sampler.border_color
              /\ t.sampler.filter = FilterMode(texOp.interpolation)

\* The sampler of a texture created with a border color was rebuilt while
\* the texture had storage.
C36_Witness ==
    /\ texOp.op = "set_texture_interpolation"
    /\ texOp.samplers = 1
    /\ Unwrap(tex).address_mode = "ClampToBorder"
    /\ IsSome(Unwrap(tex).border_color)
    /\ IsSome(Unwrap(tex).texture)

\* C28: every full-image upload lies within the texture's current storage:
\* a write_texture of size S keeps the storage it found only when that is at
\* least S in both dimensions, and otherwise allocates storage of size S.
C28_UploadWithinStorage ==
    (texOp.op = "write_texture" /\ texOp.result = "ok") =>
        LET storage == Unwrap(Unwrap(tex).texture)
            upload == Unwrap(texOp.upload)
            found == Unwrap(texOp.pre).texture
        IN  /\ upload.texture = storage.id
            /\ upload.origin[1] + upload.width <= storage.width
            /\ upload.origin[2] + upload.height <= storage.height
            /\ IF IsSome(found) /\ Unwrap(found).id = storage.id
               THEN /\ Unwrap(found).width >= texOp.size[1]
                    /\ Unwrap(found).height >= texOp.size[2]
               ELSE /\ storage.width = texOp.size[1]
                    /\ storage.height = texOp.size[2]

\* C23: at most one guard of a texture is alive at a time, whichever handles
\* are used: borrow_mut or bind_group called while a BorrowedTextureMut guard
\* is alive fails fatally, grants nothing and changes nothing.
C23_ExclusiveBorrow ==
    /\ Cardinality(guards) <= 1
    /\ guards \subseteq 1 .. handles
    /\ borrow = -1 <=> guards # {}
    /\ texOp.op \in {"borrow_mut", "bind_group"} =>
          IF texOp.guards # {}
          THEN /\ texOp.result = "panic"
               /\ tstatus = "panicked"
               /\ guards = texOp.guards
               /\ tex = texOp.pre
          ELSE texOp.op = "borrow_mut" =>
                   texOp.result = "ok" /\ Cardinality(guards) = 1

\* A clone asked for the bind group, or for a second guard, while the guard
\* taken through the first handle was alive.
C23_Witness ==
    /\ texOp.op \in {"borrow_mut", "bind_group"}
    /\ texOp.guards = {1}
    /\ handles = 2
    /\ texOp.result = "panic"
    /\ IsSome(Unwrap(tex).bind_group)

-----------------------------------------------------------------------------
(* Properties of GlContext (SpecGl) *)

\* The operations of impl GpuContext for GlContext.
GpuContextOps ==
    {"clear", "flush", "create_texture", "delete_texture", "write_texture",
     "write_subtexture", "set_texture_interpolation", "max_texture_size",
     "create_buffer", "write_buffer", "delete_buffer", "create_vertex_array",
     "delete_vertex_array", "push_buffers"}

\* C8: every GpuContext operation called while has_context is false fails
\* fatally before it makes any driver call.
C8_EveryOperationAsserts ==
    (glOp.op \in GpuContextOps /\ ~glOp.ctx) =>
        glOp.result = "panic" /\ glOp.calls = <<>>

\* C19 as claimed: a flush called while the context is not available
\* returns Err.
C19_FlushReturnsErr ==
    (glOp.op = "flush" /\ ~glOp.ctx) => glOp.result = "Err"

\* C19 as amended: flush never returns Err; with has_context true it makes
\* the driver's Flush call and returns Ok, with has_context false it fails
\* fatally before any driver call.
C19_FlushOkOrFatal ==
    glOp.op = "flush" =>
        IF glOp.ctx
        THEN glOp.result = "Ok" /\ glOp.calls = <<Call("Flush", "", 0)>>
        ELSE /\ glOp.result = "panic"
             /\ glOp.calls = <<>>
             /\ gstatus = "panicked"

\* A flush after unset_context.
C19_Witness ==
    /\ glOp.op = "flush"
    /\ ~glOp.ctx
    /\ ~has_context
    /\ glOp.result = "panic"

\* The step of push_buffers a driver call belongs to: 1 bind the program,
\* 2 upload the viewport size and the transform, 3 bind the textures to
\* their units and samplers, 4 bind the vertex array and the buffers,
\* 5 draw, 6 unbind.
Phase(c) ==
    CASE c.fn = "UseProgram" -> IF c.arg # 0 THEN 1 ELSE 6
      [] c.fn \in {"Viewport", "Uniform2f", "UniformMatrix3fv"} -> 2
      [] c.fn \in {"ActiveTexture", "Uniform1i"} -> 3
      [] c.fn = "BindTexture" -> IF c.arg # 0 THEN 3 ELSE 6
      [] c.fn \in {"BindVertexArray", "BindBuffer"} ->
             IF c.arg # 0 THEN 4 ELSE 6
      [] c.fn = "DrawElements" -> 5
      [] OTHER -> 0

\* C20: the driver calls of one push_buffers come in the order bind program,
\* upload uniforms, bind textures, bind vertex array and buffers, draw,
\* unbind: the one draw follows every bind and upload and precedes every
\* unbind.
C20_PushBuffersOrder ==
    glOp.op = "push_buffers" =>
        LET calls == glOp.calls
            N == Len(glOp.calls)
        IN  /\ \A i \in 1 .. N : Phase(calls[i]) \in 1 .. 6
            /\ \A i \in 1 .. N : \A j \in i .. N :
                   Phase(calls[i]) <= Phase(calls[j])
            /\ \A p \in 1 .. 6 : \E i \in 1 .. N : Phase(calls[i]) = p
            /\ Cardinality({i \in 1 .. N : calls[i].fn = "DrawElements"}) = 1
            /\ \E i \in 1 .. N : calls[i] = Call("Uniform2f", "viewport_size", 0)
            /\ \E i \in 1 .. N : calls[i] = Call("UniformMatrix3fv", "u_transform", 0)
            /\ Cardinality({i \in 1 .. N : Phase(calls[i]) = 3
                                             /\ calls[i].fn = "BindTexture"}) = 2
            /\ \E i \in 1 .. N : /\ Phase(calls[i]) = 4
                                  /\ calls[i].fn = "BindVertexArray"
            /\ \E i \in 1 .. N : /\ Phase(calls[i]) = 4
                                  /\ calls[i].target = "ARRAY_BUFFER"
            /\ \E i \in 1 .. N : /\ Phase(calls[i]) = 4
                                  /\ calls[i].target = "ELEMENT_ARRAY_BUFFER"

\* A push_buffers that drew with two different textures and left its vertex
\* buffer bound.
C20_Witness ==
    /\ glOp.op = "push_buffers"
    /\ glOp.result = "Ok"
    /\ \E i \in 1 .. Len(glOp.calls) :
           glOp.calls[i] = Call("BindTexture", "TEXTURE_2D", 1)
    /\ \E i \in 1 .. Len(glOp.calls) :
           glOp.calls[i] = Call("BindTexture", "TEXTURE_2D", 2)
    /\ glState.array_buffer # 0

\* The flag follows the most recent of new, set_context and unset_context
\* (glOp.toggle), and an asserting operation fails its assertion, before any
\* driver call, exactly when that was unset_context.
FlagFollowsToggle ==
    /\ has_context <=> glOp.toggle \in {"new", "set_context"}
    /\ glOp.op = "unset_context" => ~has_context
    /\ glOp.op \in {"new", "set_context"} => has_context
    /\ glOp.op \in AssertingOps =>
          ((glOp.result = "panic" /\ glOp.calls = <<>>)
              <=> glOp.toggle = "unset_context")

\* set_context and unset_context leave the driver state alone.
TogglesOnlyFlag ==
    glOp'.op \in {"set_context", "unset_context"} =>
        /\ glState' = glState
        /\ gstatus' = gstatus

\* C22 as stated: set_context and unset_context change only the flag, the
\* flag is true after new, false after unset_context and true after
\* set_context, and an asserting operation succeeds exactly when the most
\* recent of these calls was new or set_context.
C22_SucceedsIffContextSet ==
    /\ FlagFollowsToggle
    /\ glOp.op \in AssertingOps =>
          (glOp.result # "panic" <=> glOp.toggle \in {"new", "set_context"})

\* C22, amended: set_context and unset_context change only the flag, the
\* flag is true after new, false after unset_context and true after
\* set_context, and an asserting operation passes its context assertion
\* exactly when the most recent of these calls was new or set_context (it may
\* still fail on an image format it does not support).
C22_AssertionPassesIffContextSet == [](FlagFollowsToggle) /\ [][TogglesOnlyFlag]_vars

\* An asserting operation ran to its end after a set_context.
C22_Witness ==
    /\ glOp.toggle = "set_context"
    /\ glOp.op \in AssertingOps
    /\ glOp.result # "panic"
    /\ glOp.calls # <<>>

\* C29: after push_buffers has returned none of its bindings remains: the
\* program, the vertex array, the array buffer, the element array buffer and
\* the 2D texture of both texture units are 0.
C29_PushBuffersUnbindsAll ==
    (glOp.op = "push_buffers" /\ glOp.result = "Ok") =>
        /\ glState.program = 0
        /\ glState.vertex_array = 0
        /\ glState.array_buffer = 0
        /\ glState.element_array_buffer = 0
        /\ glState.texture_2d = <<0, 0>>

-----------------------------------------------------------------------------
(* Properties of unsupported enum values (SpecEnum) *)

-----------------------------------------------------------------------------
(* Properties of the example's event loop (SpecLoop) *)

\* C30: after every event the loop has handled, exactly one of
\* not_current_gl_context and state holds the GL context, never both and never
\* neither.
C30_ExactlyOneHolder ==
    lstatus = "running" =>
        /\ IsSome(not_current_gl_context) # IsSome(state)
        /\ IsSome(not_current_gl_context) =>
              not_current_gl_context = Some(NotCurrent(1))
        /\ IsSome(state) => Unwrap(state).context = PossiblyCurrent(1)

\* A Suspended was handled while the state held the context, after a frame
\* was scheduled.
C30_Witness ==
    /\ lstatus = "running"
    /\ loopOp.event = "Suspended"
    /\ IsSome(loopOp.pre.state)
    /\ IsSome(not_current_gl_context)
    /\ frames >= 1
\* Whether the most recent event was a RedrawEventsCleared that drew a frame.
Drew ==
    /\ loopOp.event = "RedrawEventsCleared"
    /\ IsSome(loopOp.pre.state)
    /\ IsSome(renderer)

\* C39: a frame is drawn only while the renderer's has_context flag is true:
\* whenever state is present there is a renderer and its flag is set, and
\* after a Suspended state is absent, so that nothing is drawn until the next
\* Resumed.
C39_DrawsOnlyWithContext ==
    /\ IsSome(state) => (IsSome(renderer) /\ has_context)
    /\ Drew => (has_context /\ IsSome(state))
    /\ loopOp.event = "Suspended" =>
          /\ state = None
          /\ IsSome(renderer) => ~has_context
    /\ (loopOp.event = "RedrawEventsCleared" /\ loopOp.pre.state = None) =>
          loopOp.result = "ok"

\* A frame was drawn after the loop had been suspended and resumed.
C39_Witness ==
    /\ Drew
    /\ loopOp.result = "ok"
    /\ frames >= 1
    /\ glOp.op = "set_context"
    /\ ~glOp.ctx
    /\ has_context

====
